---- MODULE Spec2Model ----
(***************************************************************************)
(* ActionFlow conversation orchestration: the LangGraph workflow built in  *)
(* backend/app/core/orchestrator.py (supervisor, sharpener, info, action,  *)
(* escalation and tools nodes), driven one turn at a time by chat() and    *)
(* persisted between turns by api/v1/chat_routes.py.                       *)
(***************************************************************************)
EXTENDS Integers, Sequences, FiniteSets, TLC

VARIABLES
    state,   \* AgentState: the channel values of the running graph
    pc,      \* "idle" between turns, else the node to run next, "end" or "error"
    steps,   \* supersteps executed by graph.ainvoke in the current turn
    err,     \* why the turn raised: "" | "llm" | "import" | "recursion"
    store,   \* the conversation's snapshot in the state store (Redis), or NoSnapshot
    conv,    \* the conversation row and its stored messages (database)
    turn,    \* turns started so far
    last,    \* what the most recently executed node did (history variable)
    ran,     \* the phases the Action handler has run in this turn (history variable)
    reply,   \* the response text of the most recent turn ("" before the first)
    seen,    \* the counters the conversation held at its last clean turn end (history variable)
    other,   \* a second send_message request for the same conversation id
    calc     \* the input and the result of a function applied on its own

vars == <<state, pc, steps, err, store, conv, turn, last, ran, reply, seen, other, calc>>

----------------------------------------------------------------------------
(* Bounds *)

MaxTurns == 2
MaxLedger == 14
MaxSharpTurns == 4

(* Program constants *)

\* graph.ainvoke(initial_state) is called without a config: LangGraph's
\* default recursion_limit applies
RecursionLimit == 25

----------------------------------------------------------------------------
(* schemas.py *)

ConversationState ==
    {"idle", "sharpening", "ready", "action", "info", "completed", "escalation"}

None == "none"

REQUIRED_FIELDS == <<"destination", "departure_date", "return_date">>

TaskTags == <<"search_initiated", "results_presented", "selection_presented",
              "booking_completed", "action_completed", "info_completed">>

\* Mutant of AddReducer: a channel without reducer, the update overwrites
AddReducer_overwrite(old, update) == update

\* Annotated[List[str], operator.add]: the channel's new value is old + update
AddReducer(old, update) == old \o update

\* Annotated[List[BaseMessage], add_messages] for messages without ids
add_messages(old, update) == old \o update

Range(seq) == {seq[i] : i \in 1..Len(seq)}

Contains(seq, x) == \E i \in 1..Len(seq) : seq[i] = x

\* list.copy() followed by "if tag not in new_tasks: new_tasks.append(tag)"
AppendIfAbsent(seq, x) == IF Contains(seq, x) THEN seq ELSE Append(seq, x)

\* messages[-n:]
LastN(seq, n) ==
    IF Len(seq) <= n THEN seq ELSE SubSeq(seq, Len(seq) - n + 1, Len(seq))

----------------------------------------------------------------------------
(* Messages *)

HumanMessage(text) == [type |-> "human", content |-> text, tool_calls |-> ""]
AIMessage(text)    == [type |-> "ai", content |-> text, tool_calls |-> ""]
AIToolCall(name)   == [type |-> "ai", content |-> "", tool_calls |-> name]
ToolMessage(text)  == [type |-> "tool", content |-> text, tool_calls |-> ""]
SystemMessage(text) == [type |-> "system", content |-> text, tool_calls |-> ""]

\* The user messages the model sends, by what the detectors find in them
UserTexts == {"hello", "2", "yes", "yes, option 2", "another one", "talk to human"}

\* re.search(r'\b([1-5])\b'), the ordinal words and the "cheapest" phrases
SelectionTexts == {"2", "yes, option 2"}

\* any(kw in content for kw in confirm_keywords)
ConfirmationTexts == {"yes", "yes, option 2"}

\* "another" in text.lower() or "else" in text.lower()
AnotherTexts == {"another one"}

\* any(kw in msg_lower for kw in explicit_keywords) of quick_escalation_check
HumanRequestTexts == {"talk to human"}

LLM_TEXT == "llm text"
RAW_TEXT == "text that is not JSON"
PLAN_TEXT == "llm text, Your Travel Plan, Ready to search?"
RAW_PLAN_TEXT == "text that is not JSON, Your Travel Plan, Ready to search?"
SEARCH_DONE_TEXT == "Search completed. Results ready to present."
COMPLETE_TEXT == "Your booking is complete!"
ESCALATION_TEXT == "I understand, I'm connecting you to a customer representative."
INFO_APOLOGY_TEXT == "I apologize, I'm having trouble accessing policy information right now."
TOOL_RESULT == "tool output"
FALLBACK_TEXT == "Sorry, an error occurred. Please try again."
HTTP_500 == "HTTP 500"

----------------------------------------------------------------------------
(* core/tools *)

location_tools == {"resolve_location", "search_cities_by_country", "validate_route"}

action_tools == {"search_flights", "search_hotels", "get_hotel_offers",
                 "create_booking", "get_user_bookings", "get_booking_details",
                 "cancel_booking", "modify_booking"}

all_action_tools == action_tools \cup location_tools

\* app.core.tools.booking is not part of the sources: the booking-creation tool only
booking_tools == {"create_booking"}

\* The tools the modelled language model asks for, when they are bound to it
RequestedTools == {"resolve_location", "search_flights", "create_booking"}

----------------------------------------------------------------------------
(* agents/action_agent.py: phase detection *)

SEARCH == "search"
PRESENT == "present"
CONFIRM == "confirm"
BOOK == "book"
COMPLETE == "complete"

MaxOf(S) == CHOOSE x \in S : \A y \in S : y <= x

HumanIdx(w) == {i \in 1..Len(w) : w[i].type = "human"}

\* The first HumanMessage met when scanning w in reverse, as a set of 0 or 1 texts
FirstHumanReversed(w) ==
    IF HumanIdx(w) = {} THEN {} ELSE {w[MaxOf(HumanIdx(w))].content}

_detect_user_selection(messages) ==
    \E c \in FirstHumanReversed(LastN(messages, 3)) : c \in SelectionTexts

_detect_user_confirmation(messages) ==
    \E c \in FirstHumanReversed(LastN(messages, 2)) : c \in ConfirmationTexts

\* Mutant of determine_phase: the selection rule is tried before the
\* confirmation rule
determine_phase_swapped(messages, completed_tasks) ==
    IF messages = <<>> THEN SEARCH
    ELSE IF Contains(completed_tasks, "booking_completed") THEN COMPLETE
    ELSE IF _detect_user_selection(messages)
            /\ Contains(completed_tasks, "results_presented") THEN CONFIRM
    ELSE IF _detect_user_confirmation(messages)
            /\ Contains(completed_tasks, "selection_presented") THEN BOOK
    ELSE IF Contains(completed_tasks, "search_initiated")
            /\ ~Contains(completed_tasks, "results_presented") THEN PRESENT
    ELSE IF Contains(completed_tasks, "results_presented")
            /\ ~_detect_user_selection(messages) THEN PRESENT
    ELSE SEARCH

determine_phase(messages, completed_tasks) ==
    IF messages = <<>> THEN SEARCH
    ELSE IF Contains(completed_tasks, "booking_completed") THEN COMPLETE
    ELSE IF _detect_user_confirmation(messages)
            /\ Contains(completed_tasks, "selection_presented") THEN BOOK
    ELSE IF _detect_user_selection(messages)
            /\ Contains(completed_tasks, "results_presented") THEN CONFIRM
    ELSE IF Contains(completed_tasks, "search_initiated")
            /\ ~Contains(completed_tasks, "results_presented") THEN PRESENT
    ELSE IF Contains(completed_tasks, "results_presented")
            /\ ~_detect_user_selection(messages) THEN PRESENT
    ELSE SEARCH

\* msg.type == 'tool' or the class is ToolMessage, within messages[-5:]
HasToolResults(messages) ==
    \E i \in 1..Len(LastN(messages, 5)) : LastN(messages, 5)[i].type = "tool"

\* The supervisor's last_ai_has_content: the latest message, whatever its class,
\* has content and carries no tool calls
LastHasContent(messages) ==
    /\ messages # <<>>
    /\ messages[Len(messages)].content # ""
    /\ messages[Len(messages)].tool_calls = ""

\* last_user_message of supervisor_node: the newest HumanMessage's content, or ""
LastUserMessage(messages) ==
    IF HumanIdx(messages) = {} THEN ""
    ELSE messages[MaxOf(HumanIdx(messages))].content

----------------------------------------------------------------------------
(* The language model and the tools, as the nodes see them *)

\* llm.ainvoke for the intent classification: the call raises, or its content is
\* not JSON, or it is a JSON object
ClassifyOutcomes ==
    {[kind |-> "error", category |-> "", has_destination |-> FALSE,
      has_dates |-> FALSE, has_travelers |-> FALSE],
     [kind |-> "nonjson", category |-> "", has_destination |-> FALSE,
      has_dates |-> FALSE, has_travelers |-> FALSE]}
    \cup [kind : {"json"}, category : {"PLANNING", "REACTIVE", "INFO"},
          has_destination : BOOLEAN, has_dates : BOOLEAN, has_travelers : BOOLEAN]

NoLLM == [kind |-> "", category |-> "", has_destination |-> FALSE,
          has_dates |-> FALSE, has_travelers |-> FALSE]

\* The sets of fields the modelled language model reports as extracted (with a
\* non-null value) in one reply
ExtractionChoices ==
    {{}, {"destination", "motivation"}, {"departure_date", "return_date"},
     {"destination", "departure_date", "return_date"}}

\* The values of budget_skipped: absent, True (set by intent_sharpener_node when
\* the user skips the budget) and False (a false the model reported)
PyTrue == "True"
PyFalse == "False"

\* The replies in which the model reports "budget_skipped", as true or as
\* false, alone or with the required fields
SkipOutcomes ==
    [kind : {"json"},
     extracted : {{"budget_skipped"},
                  {"destination", "departure_date", "return_date", "budget_skipped"}},
     all_required_complete : {FALSE}, budget_skipped : {PyTrue, PyFalse}]

\* llm.ainvoke in the sharpener: raises, non-JSON text, or the JSON contract.
\* budget_skipped is the value reported for that key, None when it is null
SharpenOutcomes ==
    {[kind |-> "error", extracted |-> {}, all_required_complete |-> FALSE,
      budget_skipped |-> None],
     [kind |-> "nonjson", extracted |-> {}, all_required_complete |-> FALSE,
      budget_skipped |-> None]}
    \cup [kind : {"json"}, extracted : ExtractionChoices,
          all_required_complete : BOOLEAN, budget_skipped : {None}]
    \cup SkipOutcomes

----------------------------------------------------------------------------
(* agents/supervisor.py *)

\* Mutant of IdleRoute: the direct way to the Action handler also asks for the
\* number of travelers
IdleRoute_travelers(s, c) ==
    IF c.kind = "nonjson"
    THEN [s EXCEPT !.next_agent = "sharpener", !.current_state = "sharpening"]
    ELSE IF c.category = "REACTIVE" /\ c.has_destination /\ c.has_dates
                                   /\ c.has_travelers
    THEN [s EXCEPT !.next_agent = "action", !.current_state = "action",
                   !.intent_category = "REACTIVE", !.plan_ready = TRUE]
    ELSE IF c.category = "INFO"
    THEN [s EXCEPT !.next_agent = "info", !.current_state = "info",
                   !.intent_category = "INFO"]
    ELSE [s EXCEPT !.next_agent = "sharpener", !.current_state = "sharpening",
                   !.intent_category = "PLANNING"]

\* The IDLE branch once json.loads has the classification
IdleRoute(s, c) ==
    IF c.kind = "nonjson"
    THEN [s EXCEPT !.next_agent = "sharpener", !.current_state = "sharpening"]
    ELSE IF c.category = "REACTIVE" /\ c.has_destination /\ c.has_dates
    THEN [s EXCEPT !.next_agent = "action", !.current_state = "action",
                   !.intent_category = "REACTIVE", !.plan_ready = TRUE]
    ELSE IF c.category = "INFO"
    THEN [s EXCEPT !.next_agent = "info", !.current_state = "info",
                   !.intent_category = "INFO"]
    ELSE [s EXCEPT !.next_agent = "sharpener", !.current_state = "sharpening",
                   !.intent_category = "PLANNING"]

\* The ACTION branch
ActionRoute(s) ==
    IF Contains(s.completed_tasks, "results_presented")
    THEN [s EXCEPT !.next_agent = "end", !.current_state = "action"]
    ELSE IF HasToolResults(s.messages) /\ ~LastHasContent(s.messages)
    THEN [s EXCEPT !.next_agent = "action", !.current_state = "action"]
    ELSE IF Contains(s.completed_tasks, "action_completed") /\ LastHasContent(s.messages)
    THEN [s EXCEPT !.next_agent = "end", !.current_state = "completed"]
    ELSE [s EXCEPT !.next_agent = "action", !.current_state = "action"]

\* The INFO branch: state.get("previous_state", IDLE)
InfoRoute(s) ==
    IF s.previous_state = "sharpening"
    THEN [s EXCEPT !.next_agent = "sharpener", !.current_state = "sharpening"]
    ELSE IF s.previous_state = "action"
    THEN [s EXCEPT !.next_agent = "action", !.current_state = "action"]
    ELSE [s EXCEPT !.next_agent = "end", !.current_state = "idle"]

\* The COMPLETED branch: the returned "completed_tasks": [] goes through the
\* channel's reducer
CompletedRoute(s) ==
    IF LastUserMessage(s.messages) \in AnotherTexts
    THEN [s EXCEPT !.next_agent = "action", !.current_state = "action",
                   !.completed_tasks = AddReducer(s.completed_tasks, <<>>)]
    ELSE [s EXCEPT !.next_agent = "end", !.current_state = "completed"]

\* Does supervisor_node call the model in this state
SupervisorCallsLLM(s) ==
    LastUserMessage(s.messages) # "" /\ s.current_state = "idle"

\* core/escalation.py: the explicit-human-request phrase list against one message
quick_escalation_check(last_message) == last_message \in HumanRequestTexts

\* The "NORMAL ROUTING" part of supervisor_node: one branch per current_state
NormalRouting(s, c) ==
    IF s.current_state = "idle" THEN IdleRoute(s, c)
    ELSE IF s.current_state = "sharpening"
    THEN IF s.plan_ready
         THEN [s EXCEPT !.next_agent = "action", !.current_state = "action",
                        !.plan_ready = TRUE]
         ELSE [s EXCEPT !.next_agent = "sharpener", !.current_state = "sharpening"]
    ELSE IF s.current_state = "ready"
    THEN [s EXCEPT !.next_agent = "action", !.current_state = "action"]
    ELSE IF s.current_state = "action" THEN ActionRoute(s)
    ELSE IF s.current_state = "info" THEN InfoRoute(s)
    ELSE IF s.current_state = "completed" THEN CompletedRoute(s)
    ELSE IF s.current_state = "escalation"
    THEN [s EXCEPT !.next_agent = "escalation", !.current_state = "escalation"]
    ELSE [s EXCEPT !.next_agent = "end"]

\* Mutant of supervisor_node: the escalation check in front of the routing is
\* live code
supervisor_node_quick_check(s, c) ==
    IF LastUserMessage(s.messages) = ""
    THEN [s EXCEPT !.next_agent = "end", !.current_state = "idle"]
    ELSE IF quick_escalation_check(LastUserMessage(s.messages))
    THEN [s EXCEPT !.next_agent = "escalation", !.current_state = "escalation"]
    ELSE NormalRouting(s, c)

\* supervisor_node: the state after the node's returned dict is merged.  The
\* escalation check between the two parts is a string literal, not code
supervisor_node(s, c) ==
    IF LastUserMessage(s.messages) = ""
    THEN [s EXCEPT !.next_agent = "end", !.current_state = "idle"]
    ELSE NormalRouting(s, c)

----------------------------------------------------------------------------
(* agents/action_agent.py: phase handlers.  Each gives the set of results the  *)
(* handler can produce: err is "" and the fields are the returned dict, or err *)
(* names the exception that leaves the handler.                                *)

Result(llm, messages, tasks, awaiting) ==
    [err |-> "", llm |-> llm, messages |-> messages, completed_tasks |-> tasks,
     awaiting_confirmation |-> awaiting]

Raised(e, s) ==
    [err |-> e, llm |-> "error", messages |-> <<>>, completed_tasks |-> <<>>,
     awaiting_confirmation |-> s.awaiting_confirmation]

_handle_search_phase(s) ==
    IF HasToolResults(s.messages)
    THEN {Result("", <<AIMessage(SEARCH_DONE_TEXT)>>,
                 s.completed_tasks \o <<"search_initiated">>, s.awaiting_confirmation)}
    ELSE {Result("text", <<AIMessage(LLM_TEXT)>>, s.completed_tasks,
                 s.awaiting_confirmation)}
         \cup {Result("tool", <<AIToolCall(t)>>,
                      AppendIfAbsent(s.completed_tasks, "search_initiated"),
                      s.awaiting_confirmation) : t \in all_action_tools \cap RequestedTools}
         \cup {Raised("llm", s)}

_handle_present_phase(s) ==
    {Result("text", <<AIMessage(LLM_TEXT)>>,
            AppendIfAbsent(s.completed_tasks, "results_presented"),
            s.awaiting_confirmation),
     Raised("llm", s)}

_handle_confirm_phase(s) ==
    {Result("text", <<AIMessage(LLM_TEXT)>>,
            AppendIfAbsent(s.completed_tasks, "selection_presented"), TRUE),
     Raised("llm", s)}

_handle_book_phase(s) ==
    LET new_tasks == AppendIfAbsent(AppendIfAbsent(s.completed_tasks, "booking_completed"),
                                    "action_completed")
    IN {Result("text", <<AIMessage(LLM_TEXT)>>, new_tasks, FALSE)}
       \cup {Result("tool", <<AIToolCall(t)>>, new_tasks, FALSE) : t \in booking_tools \cap RequestedTools}
       \cup {Raised("llm", s)}

_handle_complete_phase(s) ==
    {Result("", <<AIMessage(COMPLETE_TEXT)>>, s.completed_tasks, s.awaiting_confirmation)}

action_agent_node(s) ==
    LET phase == determine_phase(s.messages, s.completed_tasks)
    IN IF phase = SEARCH THEN _handle_search_phase(s)
       ELSE IF phase = PRESENT THEN _handle_present_phase(s)
       ELSE IF phase = CONFIRM THEN _handle_confirm_phase(s)
       ELSE IF phase = BOOK THEN _handle_book_phase(s)
       ELSE IF phase = COMPLETE THEN _handle_complete_phase(s)
       ELSE _handle_search_phase(s)

----------------------------------------------------------------------------
(* agents/intent_sharpener.py *)

\* The keys of "extracted" in the sharpener's JSON contract
ExtractedKeys == <<"destination", "origin", "departure_date", "return_date",
                   "motivation", "budget_max", "budget_currency", "budget_skipped">>

\* The value the model extracted for a field
GIVEN == "given"

\* Mutant of SMART_DEFAULTS: a default for a required field
SMART_DEFAULTS_destination ==
    [destination |-> "anywhere", origin |-> None, motivation |-> "general",
     budget_max |-> None, budget_currency |-> "EUR", transportation_pref |-> "flexible",
     activity_pref |-> "flexible", accommodation_pref |-> "hotel", travelers |-> "1"]

SMART_DEFAULTS ==
    [origin |-> None, motivation |-> "general", budget_max |-> None,
     budget_currency |-> "EUR", transportation_pref |-> "flexible",
     activity_pref |-> "flexible", accommodation_pref |-> "hotel", travelers |-> "1"]

\* Mutant of check_completion: one collected required field is enough
check_completion_any(travel_context) ==
    \E i \in 1..Len(REQUIRED_FIELDS) :
        Contains(travel_context.collected_fields, REQUIRED_FIELDS[i])

check_completion(travel_context) ==
    \A i \in 1..Len(REQUIRED_FIELDS) :
        Contains(travel_context.collected_fields, REQUIRED_FIELDS[i])

\* for field, default_value in SMART_DEFAULTS.items(): set it where the context
\* has None
apply_smart_defaults(travel_context) ==
    [f \in DOMAIN travel_context |->
        IF f \in DOMAIN SMART_DEFAULTS
        THEN (IF travel_context[f] = None THEN SMART_DEFAULTS[f] ELSE travel_context[f])
        ELSE travel_context[f]]

\* Mutant of MergeField: the field name is appended without the membership test
MergeField_append(travel_context, field) ==
    [travel_context EXCEPT ![field] = GIVEN,
                           !.collected_fields = Append(@, field)]

\* travel_context[field] = value, and the name is appended when not yet collected
MergeField(travel_context, field) ==
    [travel_context EXCEPT ![field] = GIVEN,
                           !.collected_fields = AppendIfAbsent(@, field)]

\* for field, value in extracted.items(): if value is not None: ...
RECURSIVE MergeExtracted(_, _, _)
MergeExtracted(travel_context, extracted, i) ==
    IF i > Len(ExtractedKeys) THEN travel_context
    ELSE MergeExtracted(
             IF ExtractedKeys[i] \in extracted
             THEN MergeField(travel_context, ExtractedKeys[i]) ELSE travel_context,
             extracted, i + 1)

\* The value the loop over extracted.items() writes for "budget_skipped" when it
\* is not None, and 'if extracted.get("budget_skipped"): ... = True' after it
MergeSkipped(travel_context, value) ==
    LET written == IF value # None
                   THEN [travel_context EXCEPT !.budget_skipped = value]
                   ELSE travel_context
    IN IF value \notin {None, PyFalse}
       THEN [written EXCEPT !.budget_skipped = PyTrue]
       ELSE written

\* intent_sharpener_node after a model reply o that did not raise: content that
\* is not JSON counts as a reply with nothing extracted and itself as response
intent_sharpener_node(s, o) ==
    LET merged == MergeSkipped(MergeExtracted(s.travel_context, o.extracted, 1),
                               o.budget_skipped)
        is_complete == check_completion(merged)
        limited == IF s.sharpening_turns >= 3 /\ ~is_complete
                   THEN apply_smart_defaults(merged) ELSE merged
    IN IF is_complete \/ o.all_required_complete
       THEN [s EXCEPT !.messages = add_messages(@,
                          <<AIMessage(IF o.kind = "nonjson" THEN RAW_PLAN_TEXT
                                      ELSE PLAN_TEXT)>>),
                      !.travel_context = [apply_smart_defaults(limited) EXCEPT
                                             !.plan_summary = "summary"],
                      !.plan_ready = TRUE,
                      !.needs_user_input = FALSE,
                      !.current_state = "ready"]
       ELSE [s EXCEPT !.messages = add_messages(@,
                          <<AIMessage(IF o.kind = "nonjson" THEN RAW_TEXT
                                      ELSE LLM_TEXT)>>),
                      !.travel_context = limited,
                      !.plan_ready = FALSE,
                      !.needs_user_input = TRUE,
                      !.sharpening_turns = @ + 1,
                      !.current_state = "sharpening"]

----------------------------------------------------------------------------
(* agents/info_agent.py *)

\* The model call is inside try/except: its failure becomes a SystemMessage
info_agent_node(s, llm) ==
    [s EXCEPT
        !.messages = add_messages(@,
            <<IF llm = "error" THEN SystemMessage(INFO_APOLOGY_TEXT)
              ELSE AIMessage(LLM_TEXT)>>),
        !.completed_tasks =
            AddReducer(@, AppendIfAbsent(s.completed_tasks, "info_completed"))]

----------------------------------------------------------------------------
(* core/orchestrator.py *)

escalation_node(s) ==
    [s EXCEPT !.messages = add_messages(@, <<AIMessage(ESCALATION_TEXT)>>),
              !.current_state = "escalation"]

route_from_supervisor(s) == s.next_agent

route_after_agent(s) ==
    IF s.messages = <<>> THEN "supervisor"
    ELSE IF s.messages[Len(s.messages)].tool_calls # "" THEN "tools"
    ELSE "supervisor"

\* Mutant of route_after_sharpener: the sharpener always hands back to the
\* supervisor
route_after_sharpener_supervisor(s) == "supervisor"

\* Mutant of route_after_sharpener: the turn always ends after the sharpener
route_after_sharpener_end(s) == "end"

route_after_sharpener(s) == IF s.plan_ready THEN "supervisor" ELSE "end"

----------------------------------------------------------------------------
(* core/orchestrator.py chat() and api/v1/chat_routes.py send_message() *)

\* core/utils.py: the keys the TravelContext does not hold read as None
create_empty_travel_context ==
    [collected_fields |-> <<>>, destination |-> None, origin |-> None,
     departure_date |-> None, return_date |-> None, motivation |-> None,
     budget_max |-> None, budget_currency |-> "EUR", budget_skipped |-> None,
     transportation_pref |-> None, activity_pref |-> None,
     accommodation_pref |-> None, travelers |-> None, plan_summary |-> None]

NoSnapshot ==
    [present |-> FALSE, travel_context |-> create_empty_travel_context,
     current_state |-> None, plan_ready |-> FALSE, sharpening_turns |-> 0,
     action_turns |-> 0, intent_category |-> None, completed_tasks |-> <<>>,
     language |-> "en"]

\* schemas.py: the member names of ConversationState with their values.  A
\* member of the str-mixin enum is the string that is its value: the state's
\* current_state holds the value
MemberValue ==
    ("IDLE" :> "idle") @@ ("SHARPENING" :> "sharpening") @@
    ("READY_FOR_ACTION" :> "ready") @@ ("ACTION" :> "action") @@
    ("INFO" :> "info") @@ ("COMPLETED" :> "completed") @@
    ("ESCALATION" :> "escalation")

\* str.lower() of the member names
LowerName ==
    ("IDLE" :> "idle") @@ ("SHARPENING" :> "sharpening") @@
    ("READY_FOR_ACTION" :> "ready_for_action") @@ ("ACTION" :> "action") @@
    ("INFO" :> "info") @@ ("COMPLETED" :> "completed") @@
    ("ESCALATION" :> "escalation")

\* str.lower() on the strings a snapshot's current_state can hold: a member
\* name, or a string that is in lower case already
Lower(str) == IF str \in DOMAIN LowerName THEN LowerName[str] ELSE str

\* current_state.replace("ConversationState.", "")
StripPrefix(str) ==
    IF \E name \in DOMAIN MemberValue : str = "ConversationState." \o name
    THEN CHOOSE name \in DOMAIN MemberValue : str = "ConversationState." \o name
    ELSE str

\* chat(): "current_state_str.value", the string json.dumps writes for the member
ExportState(current_state) == current_state

\* Mutant of RestoreState: the member is looked up by name,
\* ConversationState[state_name], not by value
RestoreState_by_name(current_state) ==
    IF current_state \in {None, ""} THEN "idle"
    ELSE LET state_name == Lower(StripPrefix(current_state))
         IN IF state_name \in DOMAIN MemberValue THEN MemberValue[state_name]
            ELSE "idle"

\* chat(): "ConversationState(state_name.lower())", the member with that value;
\* IDLE when current_state is absent or no member has the value
RestoreState(current_state) ==
    IF current_state \in {None, ""} THEN "idle"
    ELSE LET state_name == Lower(StripPrefix(current_state))
         IN IF state_name \in ConversationState THEN state_name ELSE "idle"

\* chat(): initial_state from the restored values; the lists the caller passes
\* enter the accumulator channels through their reducers
InitialState(messages, cached) ==
    [messages |-> add_messages(<<>>, messages),
     current_state |-> RestoreState(cached.current_state),
     previous_state |-> None,
     travel_context |-> cached.travel_context,
     intent_category |-> None,
     next_agent |-> None,
     plan_ready |-> cached.plan_ready,
     needs_user_input |-> FALSE,
     sharpening_turns |-> cached.sharpening_turns,
     action_turns |-> cached.action_turns,
     awaiting_confirmation |-> FALSE,
     suggestions |-> AddReducer(<<>>, <<>>),
     completed_tasks |-> AddReducer(<<>>, cached.completed_tasks),
     language |-> "en"]

\* chat_routes: state_to_cache built from chat()'s returned state
Snapshot(s) ==
    [present |-> TRUE, travel_context |-> s.travel_context,
     current_state |-> ExportState(s.current_state), plan_ready |-> s.plan_ready,
     sharpening_turns |-> s.sharpening_turns, action_turns |-> s.action_turns,
     intent_category |-> s.intent_category, completed_tasks |-> s.completed_tasks,
     language |-> "en"]

AIContentIdx(messages) ==
    {i \in 1..Len(messages) : messages[i].type = "ai" /\ messages[i].content # ""}

\* chat(): the newest AIMessage with content, else the fixed fallback text
ResponseText(messages) ==
    IF AIContentIdx(messages) = {} THEN FALLBACK_TEXT
    ELSE messages[MaxOf(AIContentIdx(messages))].content

\* load_conversation_messages: stored rows as Human/AI messages
StoredMessage(row) ==
    IF row.role = "user" THEN HumanMessage(row.content) ELSE AIMessage(row.content)

LoadMessages(rows) == [i \in 1..Len(rows) |-> StoredMessage(rows[i])]

NoStep == [node |-> "", phase |-> "", llm |-> "", from |-> "", tool |-> "",
           extracted |-> {}, complete |-> FALSE]

\* What a node did: extracted and complete are the sharpener's model reply
Step(node, phase, llm, from, tool) ==
    [node |-> node, phase |-> phase, llm |-> llm, from |-> from, tool |-> tool,
     extracted |-> {}, complete |-> FALSE]

\* One superstep of graph.ainvoke ends: the next node is target, unless the
\* recursion limit is reached with work left (GraphRecursionError)
Advance(target) ==
    /\ steps' = steps + 1
    /\ IF target # "end" /\ steps + 1 >= RecursionLimit
       THEN pc' = "error" /\ err' = "recursion"
       ELSE pc' = target /\ err' = ""

Raise(e) ==
    /\ steps' = steps + 1
    /\ pc' = "error"
    /\ err' = e

\* The two turn counters of a state or of a snapshot
Counters(s) ==
    [sharpening_turns |-> s.sharpening_turns, action_turns |-> s.action_turns]

\* No second request is being served
NoOther == [stage |-> "none"]

\* No function is being applied on its own
NoCalc == [fn |-> ""]

----------------------------------------------------------------------------
(* Actions *)

\* set_conversation_state(..., ttl=86400): the snapshot's key expires
ExpireSnapshot ==
    /\ pc = "idle"
    /\ store.present
    /\ store' = NoSnapshot
    /\ UNCHANGED <<state, pc, steps, err, conv, turn, last, ran, reply>>
    /\ UNCHANGED <<seen, other, calc>>

\* send_message up to graph.ainvoke: read the snapshot if there is one, load the
\* stored messages, append the new user message
StartTurn ==
    /\ pc = "idle"
    /\ turn < MaxTurns
    /\ \E text \in UserTexts :
          /\ LET cached == IF conv.exists THEN store ELSE NoSnapshot
                 history == IF conv.exists THEN LoadMessages(conv.messages) ELSE <<>>
                 tc == IF cached.present THEN cached.travel_context
                       ELSE IF conv.exists THEN conv.travel_context
                       ELSE create_empty_travel_context
             IN state' = InitialState(Append(history, HumanMessage(text)),
                                      [cached EXCEPT !.travel_context = tc])
    /\ pc' = "supervisor"
    /\ steps' = 0
    /\ err' = ""
    /\ turn' = turn + 1
    /\ last' = NoStep
    /\ ran' = {}
    /\ UNCHANGED <<store, conv, reply>>
    /\ UNCHANGED <<seen, other, calc>>

SupervisorNode ==
    /\ pc = "supervisor"
    /\ \E c \in IF SupervisorCallsLLM(state) THEN ClassifyOutcomes ELSE {NoLLM} :
          /\ last' = Step("supervisor", "", c.kind, state.current_state, "")
          /\ IF c.kind = "error"
             THEN Raise("llm") /\ UNCHANGED state
             ELSE /\ state' = supervisor_node(state, c)
                  /\ Advance(route_from_supervisor(state'))
    /\ UNCHANGED <<store, conv, turn, ran, reply>>
    /\ UNCHANGED <<seen, other, calc>>

\* Mutant of SharpenerNode: json.loads' JSONDecodeError is not caught
SharpenerNode_strict ==
    /\ pc = "sharpener"
    /\ \E o \in SharpenOutcomes :
          /\ last' = [Step("sharpener", "", o.kind, state.current_state, "") EXCEPT
                          !.extracted = o.extracted,
                          !.complete = o.all_required_complete]
          /\ IF o.kind \in {"error", "nonjson"}
             THEN Raise("llm") /\ UNCHANGED state
             ELSE /\ state' = intent_sharpener_node(state, o)
                  /\ Advance(route_after_sharpener(state'))
    /\ UNCHANGED <<store, conv, turn, ran, reply>>
    /\ UNCHANGED <<seen, other, calc>>

SharpenerNode ==
    /\ pc = "sharpener"
    /\ \E o \in SharpenOutcomes :
          /\ last' = [Step("sharpener", "", o.kind, state.current_state, "") EXCEPT
                          !.extracted = o.extracted,
                          !.complete = o.all_required_complete]
          /\ IF o.kind = "error"
             THEN Raise("llm") /\ UNCHANGED state
             ELSE /\ state' = intent_sharpener_node(state, o)
                  /\ Advance(route_after_sharpener(state'))
    /\ UNCHANGED <<store, conv, turn, ran, reply>>
    /\ UNCHANGED <<seen, other, calc>>

InfoNode ==
    /\ pc = "info"
    /\ \E llm \in {"text", "error"} :
          /\ state' = info_agent_node(state, llm)
          /\ last' = Step("info", "", llm, state.current_state, "")
    /\ Len(state'.completed_tasks) <= MaxLedger
    /\ Advance(route_after_agent(state'))
    /\ UNCHANGED <<store, conv, turn, ran, reply>>
    /\ UNCHANGED <<seen, other, calc>>

ActionNode ==
    /\ pc = "action"
    /\ \E r \in action_agent_node(state) :
          /\ last' = Step("action", determine_phase(state.messages, state.completed_tasks),
                          r.llm, state.current_state, "")
          /\ IF r.err # ""
             THEN Raise(r.err) /\ UNCHANGED state
             ELSE /\ state' = [state EXCEPT
                                 !.messages = add_messages(@, r.messages),
                                 !.completed_tasks = AddReducer(@, r.completed_tasks),
                                 !.awaiting_confirmation = r.awaiting_confirmation]
                  /\ Len(state'.completed_tasks) <= MaxLedger
                  /\ Advance(route_after_agent(state'))
    /\ ran' = ran \cup {determine_phase(state.messages, state.completed_tasks)}
    /\ UNCHANGED <<store, conv, turn, reply>>
    /\ UNCHANGED <<seen, other, calc>>

\* ToolNode(all_tools): runs the requested tool and appends its output (the
\* tool's JSON text, or the error text of a failed tool) as a ToolMessage
ToolsNode ==
    /\ pc = "tools"
    /\ state' = [state EXCEPT !.messages = add_messages(@, <<ToolMessage(TOOL_RESULT)>>)]
    /\ last' = Step("tools", last.phase, "", state.current_state,
                    state.messages[Len(state.messages)].tool_calls)
    /\ Advance("supervisor")
    /\ UNCHANGED <<store, conv, turn, ran, reply>>
    /\ UNCHANGED <<seen, other, calc>>

EscalationNode ==
    /\ pc = "escalation"
    /\ state' = escalation_node(state)
    /\ last' = Step("escalation", "", "", state.current_state, "")
    /\ Advance("end")
    /\ UNCHANGED <<store, conv, turn, ran, reply>>
    /\ UNCHANGED <<seen, other, calc>>

\* chat() returns; send_message saves the two messages, the snapshot and the
\* travel context; the graph's state is dropped
EndTurn ==
    /\ pc = "end"
    /\ reply' = ResponseText(state.messages)
    /\ conv' = [exists |-> TRUE,
                messages |-> conv.messages \o
                    <<[role |-> "user", content |-> LastUserMessage(state.messages)],
                      [role |-> "assistant", content |-> ResponseText(state.messages)]>>,
                travel_context |-> state.travel_context]
    /\ store' = Snapshot(state)
    /\ pc' = "idle"
    /\ state' = InitialState(<<>>, NoSnapshot)
    /\ steps' = 0
    /\ err' = ""
    /\ last' = NoStep
    /\ ran' = {}
    /\ UNCHANGED turn
    /\ seen' = Counters(state)
    /\ UNCHANGED <<other, calc>>

\* Mutant of FailTurn: no rollback, the user message saved before chat() stays
FailTurn_no_rollback ==
    /\ pc = "error"
    /\ reply' = HTTP_500
    /\ conv' = [conv EXCEPT !.exists = TRUE,
                            !.messages = Append(@,
                                [role |-> "user",
                                 content |-> LastUserMessage(state.messages)])]
    /\ pc' = "idle"
    /\ state' = InitialState(<<>>, NoSnapshot)
    /\ steps' = 0
    /\ err' = ""
    /\ last' = NoStep
    /\ ran' = {}
    /\ UNCHANGED <<store, turn>>
    /\ UNCHANGED <<seen, other, calc>>

\* An exception leaves chat(): send_message rolls the database session back and
\* answers HTTP 500
FailTurn ==
    /\ pc = "error"
    /\ reply' = HTTP_500
    /\ pc' = "idle"
    /\ state' = InitialState(<<>>, NoSnapshot)
    /\ steps' = 0
    /\ err' = ""
    /\ last' = NoStep
    /\ ran' = {}
    /\ UNCHANGED <<store, conv, turn>>
    /\ UNCHANGED <<seen, other, calc>>

----------------------------------------------------------------------------
(* Specifications *)

\* A new conversation
Init ==
    /\ state = InitialState(<<>>, NoSnapshot)
    /\ pc = "idle"
    /\ steps = 0
    /\ err = ""
    /\ store = NoSnapshot
    /\ conv = [exists |-> FALSE, messages |-> <<>>,
               travel_context |-> create_empty_travel_context]
    /\ turn = 0
    /\ last = NoStep
    /\ ran = {}
    /\ reply = ""
    /\ seen = Counters(NoSnapshot)
    /\ other = NoOther
    /\ calc = NoCalc

Next ==
    \/ StartTurn
    \/ ExpireSnapshot
    \/ SupervisorNode
    \/ SharpenerNode
    \/ InfoNode
    \/ ActionNode
    \/ ToolsNode
    \/ EndTurn
    \/ FailTurn

Spec == Init /\ [][Next]_vars

\* The ledgers a stored snapshot is drawn from: every set of milestone tags, in
\* the order of TaskTags
RECURSIVE TagSeq(_, _)
TagSeq(S, i) ==
    IF i > Len(TaskTags) THEN <<>>
    ELSE (IF TaskTags[i] \in S THEN <<TaskTags[i]>> ELSE <<>>) \o TagSeq(S, i + 1)

LedgerInputs == {TagSeq(S, 1) : S \in SUBSET Range(TaskTags)}

\* A conversation with one stored exchange and any stored snapshot, one turn
\* before the turn bound
InitAny ==
    /\ state = InitialState(<<>>, NoSnapshot)
    /\ pc = "idle"
    /\ steps = 0
    /\ err = ""
    /\ store \in [present : {TRUE},
                  travel_context : {create_empty_travel_context},
                  current_state : ConversationState,
                  plan_ready : BOOLEAN,
                  sharpening_turns : {0},
                  action_turns : {0},
                  intent_category : {None},
                  completed_tasks : LedgerInputs,
                  language : {"en"}]
    /\ conv = [exists |-> TRUE,
               messages |-> <<[role |-> "user", content |-> "hello"],
                              [role |-> "assistant", content |-> LLM_TEXT]>>,
               travel_context |-> create_empty_travel_context]
    /\ turn = MaxTurns - 1
    /\ last = NoStep
    /\ ran = {}
    /\ reply = LLM_TEXT
    /\ seen = Counters(store)
    /\ other = NoOther
    /\ calc = NoCalc

NextAny ==
    \/ StartTurn
    \/ ExpireSnapshot
    \/ SupervisorNode
    \/ SharpenerNode
    \/ InfoNode
    \/ ActionNode
    \/ ToolsNode
    \/ EscalationNode
    \/ EndTurn
    \/ FailTurn

SpecAny == InitAny /\ [][NextAny]_vars

\* The context after the fields of S were collected in n sharpener turns that
\* did not complete: the defaults were applied in the turns from the fourth on
SharpeningContext(S, n) ==
    IF n > 3 THEN apply_smart_defaults(MergeExtracted(create_empty_travel_context, S, 1))
    ELSE MergeExtracted(create_empty_travel_context, S, 1)

\* The stored rows of n exchanges
StoredExchanges(n) ==
    [i \in 1..(2 * n) |-> IF i % 2 = 1 THEN [role |-> "user", content |-> "hello"]
                          ELSE [role |-> "assistant", content |-> LLM_TEXT]]

\* A conversation that is being sharpened, one turn before the turn bound: n
\* turns of the sharpener have ended without completion, with any of the
\* incomplete extractions collected
InitSharp ==
    /\ state = InitialState(<<>>, NoSnapshot)
    /\ pc = "idle"
    /\ steps = 0
    /\ err = ""
    /\ \E n \in 1..MaxSharpTurns :
       \E S \in {X \in ExtractionChoices : ~(Range(REQUIRED_FIELDS) \subseteq X)} :
          /\ store = [present |-> TRUE,
                      travel_context |-> SharpeningContext(S, n),
                      current_state |-> "sharpening",
                      plan_ready |-> FALSE,
                      sharpening_turns |-> n,
                      action_turns |-> 0,
                      intent_category |-> None,
                      completed_tasks |-> <<>>,
                      language |-> "en"]
          /\ conv = [exists |-> TRUE,
                     messages |-> StoredExchanges(n),
                     travel_context |-> SharpeningContext(S, n)]
    /\ turn = MaxTurns - 1
    /\ last = NoStep
    /\ ran = {}
    /\ reply = LLM_TEXT
    /\ seen = Counters(store)
    /\ other = NoOther
    /\ calc = NoCalc

SpecSharp == InitSharp /\ [][Next]_vars

\* The context of a conversation whose plan the Sharpener completed
CompletedContext ==
    [apply_smart_defaults(
         MergeExtracted(create_empty_travel_context, Range(REQUIRED_FIELDS), 1))
     EXCEPT !.plan_summary = "summary"]

\* A conversation that starts its turn in phase Idle, one turn before the turn
\* bound: a new one, or a stored one whose snapshot has expired, so that only
\* the conversation row's travel context is left (with some fields collected,
\* or with a completed plan)
InitIdle ==
    /\ state = InitialState(<<>>, NoSnapshot)
    /\ pc = "idle"
    /\ steps = 0
    /\ err = ""
    /\ store = NoSnapshot
    /\ \/ /\ conv = [exists |-> FALSE, messages |-> <<>>,
                      travel_context |-> create_empty_travel_context]
          /\ reply = ""
          /\ seen = Counters(NoSnapshot)
       \/ /\ \E tc \in {SharpeningContext({"destination", "motivation"}, 1),
                         CompletedContext} :
                conv = [exists |-> TRUE, messages |-> StoredExchanges(1),
                        travel_context |-> tc]
          /\ reply = LLM_TEXT
          /\ seen = [sharpening_turns |-> IF conv.travel_context = CompletedContext
                                          THEN 0 ELSE 1,
                     action_turns |-> 0]
    /\ turn = MaxTurns - 1
    /\ last = NoStep
    /\ ran = {}
    /\ other = NoOther
    /\ calc = NoCalc

SpecIdle == InitIdle /\ [][Next]_vars

----------------------------------------------------------------------------
(* Properties *)

IsPrefix(a, b) == Len(a) <= Len(b) /\ SubSeq(b, 1, Len(a)) = a

NoDuplicates(seq) == \A i, j \in 1..Len(seq) : seq[i] = seq[j] => i = j

MinOf(S) == CHOOSE x \in S : \A y \in S : x <= y

\* The snapshot the running turn started from: results were presented in an
\* earlier turn and the conversation is in phase Action
ResultsWerePresented ==
    /\ store.present
    /\ store.current_state = "action"
    /\ Contains(store.completed_tasks, "results_presented")

\* C1: once results have been presented, a later turn whose user message carries
\* a selection makes the Action handler run Confirm: when such a turn's loop has
\* ended, Confirm is among the phases the handler ran in it.
C1_SelectionRunsConfirm ==
    (pc = "end" /\ ResultsWerePresented
     /\ LastUserMessage(state.messages) \in SelectionTexts)
        => CONFIRM \in ran

\* C2: a turn whose external calls all return ends at "end": the graph run is
\* never aborted for having taken too many Router and Handler steps.
C2_TurnTerminates == pc = "error" => err # "recursion"

\* The seven rules of determineActionPhase, as the specification lists them
RuleHolds(i, messages, tasks) ==
    CASE i = 1 -> messages = <<>>
      [] i = 2 -> "booking_completed" \in Range(tasks)
      [] i = 3 -> _detect_user_confirmation(messages)
                  /\ "selection_presented" \in Range(tasks)
      [] i = 4 -> _detect_user_selection(messages)
                  /\ "results_presented" \in Range(tasks)
      [] i = 5 -> "search_initiated" \in Range(tasks)
                  /\ "results_presented" \notin Range(tasks)
      [] i = 6 -> "results_presented" \in Range(tasks)
                  /\ ~_detect_user_selection(messages)
      [] OTHER -> TRUE

RulePhase == <<SEARCH, COMPLETE, BOOK, CONFIRM, PRESENT, PRESENT, SEARCH>>

EarliestRulePhase(messages, tasks) ==
    RulePhase[MinOf({i \in 1..7 : RuleHolds(i, messages, tasks)})]

\* C3: for the ledger of every reachable state and every prefix of its message
\* history (the empty one included), determine_phase returns the phase of the
\* earliest of the seven rules that matches; a ledger of just results_presented
\* with "2" as the newest message gives Confirm, and booking_completed in the
\* ledger gives Complete for every non-empty history.
C3_PhasePrecedence ==
    \A k \in 0..Len(state.messages) :
        LET m == SubSeq(state.messages, 1, k)
            t == state.completed_tasks
        IN /\ determine_phase(m, t) = EarliestRulePhase(m, t)
           /\ (Range(t) = {"results_presented"} /\ m # <<>> /\ m[k] = HumanMessage("2"))
                 => determine_phase(m, t) = CONFIRM
           /\ ("booking_completed" \in Range(t) /\ m # <<>>)
                 => determine_phase(m, t) = COMPLETE

\* The Action handler has just run Confirm on the ledger {results_presented}
\* with "2" as the user's message
C3_Witness ==
    /\ last.node = "action"
    /\ last.phase = CONFIRM
    /\ store.completed_tasks = <<"results_presented">>
    /\ LastUserMessage(state.messages) = "2"

\* The latest message is an assistant text without tool call
LatestIsAssistantText(messages) ==
    /\ messages # <<>>
    /\ messages[Len(messages)].type = "ai"
    /\ messages[Len(messages)].content # ""
    /\ messages[Len(messages)].tool_calls = ""

\* The Router's decision in phase Action by the four rules of the specification
ActionRuleDecision(messages, tasks) ==
    IF "results_presented" \in Range(tasks) THEN <<"end", "action">>
    ELSE IF HasToolResults(messages) /\ ~LatestIsAssistantText(messages)
    THEN <<"action", "action">>
    ELSE IF "action_completed" \in Range(tasks) /\ LatestIsAssistantText(messages)
    THEN <<"end", "completed">>
    ELSE <<"action", "action">>

\* C4: whenever the Router has just run in phase Action, its decision (next
\* handler, new phase) is the one of the first matching rule among the four, for
\* the ledger and the message history it ran on.
C4_ActionRouting ==
    (last.node = "supervisor" /\ last.from = "action")
        => <<state.next_agent, state.current_state>>
               = ActionRuleDecision(state.messages, state.completed_tasks)

\* C5: completedTasks never holds a milestone tag twice.
C5_LedgerDuplicateFree == NoDuplicates(state.completed_tasks)

\* C6: every step of the graph (Router, handler or tool node, with the merge of
\* what it returned) leaves the previous completedTasks and suggestions as a
\* prefix of the new ones: nothing already present is removed or overwritten.
C6_AccumulatorsAppendOnly ==
    [][pc \notin {"idle", "end", "error"}
          => /\ IsPrefix(state.completed_tasks, state'.completed_tasks)
             /\ IsPrefix(state.suggestions, state'.suggestions)]_vars

\* A handler has appended to a ledger that was not empty at the turn's start
C6_Witness ==
    /\ last.node = "action"
    /\ last.phase = PRESENT
    /\ store.completed_tasks # <<>>
    /\ Len(state.completed_tasks) > Len(store.completed_tasks)

\* C7: when the Router has just run in phase Completed, then for a message
\* containing "another"/"else" completedTasks is empty in the merged state and
\* the next handler is Action; for any other message the turn ends, the phase
\* stays Completed and the ledger is the one the turn started with.
C7_CompletedReset ==
    (last.node = "supervisor" /\ last.from = "completed")
        => IF LastUserMessage(state.messages) \in AnotherTexts
           THEN state.completed_tasks = <<>> /\ state.next_agent = "action"
           ELSE /\ state.next_agent = "end"
                /\ state.current_state = "completed"
                /\ state.completed_tasks = store.completed_tasks

\* C8: a create_booking tool call reaches the tools node only from the Book
\* phase, that is after a confirmation was detected with selection_presented in
\* the ledger.
C8_BookingOnlyInBook ==
    (pc = "tools" /\ state.messages[Len(state.messages)].tool_calls = "create_booking")
        => last.phase = BOOK

\* C9: when the Idle-phase classification fails (the model call raises, or its
\* output is not JSON), the Router routes to Sharpening and the turn goes on.
C9_ClassificationFailureToSharpening ==
    (last.node = "supervisor" /\ last.from = "idle" /\ last.llm \in {"error", "nonjson"})
        => pc = "sharpener" /\ state.current_state = "sharpening"

\* C10: a failing model call inside the Sharpener or the Action handler does not
\* abort the turn.
C10_HandlerFailureCaught ==
    (last.node \in {"sharpener", "action"} /\ last.llm = "error") => pc # "error"

\* C12: whenever the Router has just moved the conversation into phase Info,
\* previousPhase holds the phase the conversation was in before (the one the
\* Router ran in), so that the Router can return to it after the answer.
C12_InfoKeepsPreviousPhase ==
    (last.node = "supervisor" /\ last.from # "info" /\ state.current_state = "info")
        => state.previous_state = last.from

FirstMessageAsksForHuman ==
    /\ ~conv.exists
    /\ pc # "idle"
    /\ quick_escalation_check(LastUserMessage(state.messages))

RequiredCollected(travel_context) ==
    Range(REQUIRED_FIELDS) \subseteq Range(travel_context.collected_fields)

\* The running turn started in phase Sharpening with a required field missing,
\* and its message filled the last missing one
FilledLastField ==
    /\ conv.exists
    /\ store.present
    /\ store.current_state = "sharpening"
    /\ ~store.plan_ready
    /\ ~RequiredCollected(store.travel_context)
    /\ RequiredCollected(state.travel_context)

\* C15 as stated: the state returned at the end of that turn has planReady=true
\* and phase ReadyForAction.
C15_EndsReadyForAction ==
    (FilledLastField /\ pc = "end")
        => state.plan_ready /\ state.current_state = "ready"

\* C15, amended: in that turn the Sharpener returns planReady=true and phase
\* ReadyForAction and hands over to the Router, which forwards to the Action
\* handler in the same turn: the state returned at the end of the turn has
\* planReady=true and phase Action, the Action handler having run.
C15_EndsInAction ==
    FilledLastField
        => /\ (last.node = "sharpener")
                 => /\ state.plan_ready
                    /\ state.current_state = "ready"
                    /\ pc = "supervisor"
           /\ (pc = "end")
                 => /\ state.plan_ready
                    /\ state.current_state = "action"
                    /\ ran # {}

\* That turn has ended
C15_Witness == FilledLastField /\ pc = "end"

\* C16: the Router in phase Sharpening forwards to Action when planReady holds
\* and to the Sharpener otherwise; the Sharpener only ever runs as the second
\* step of a turn (hence at most once); when it has run without completing, the
\* turn ends right there, in phase Sharpening, after the Router and the
\* Sharpener and nothing else.
C16_SharpenerRunsOnce ==
    /\ (last.node = "supervisor" /\ last.from = "sharpening")
          => IF state.plan_ready THEN pc = "action" ELSE pc = "sharpener"
    /\ (pc = "sharpener") => steps = 1
    /\ (last.node = "sharpener" /\ last.llm # "error" /\ ~state.plan_ready)
          => /\ pc = "end"
             /\ state.current_state = "sharpening"
             /\ steps = 2
             /\ ran = {}

\* A turn that started in phase Sharpening without a ready plan has ended after
\* the Sharpener
C16_Witness ==
    /\ store.present
    /\ store.current_state = "sharpening"
    /\ ~store.plan_ready
    /\ last.node = "sharpener"
    /\ pc = "end"

\* C17: on every run of the Sharpener whose model call returns, the fields
\* collected afterwards are the ones collected before plus the extracted ones;
\* completion is declared exactly when the required fields are among them or
\* the model reports all_required_complete; on completion plan_ready is true,
\* needs_user_input false, the phase ReadyForAction and sharpening_turns as
\* before; otherwise sharpening_turns is one more, needs_user_input true,
\* plan_ready false and the phase Sharpening.
C17_CompletionRule ==
    [][(pc = "sharpener" /\ pc' # "error")
          => LET tc == state'.travel_context
                 done == RequiredCollected(tc) \/ last'.complete
             IN /\ Range(tc.collected_fields) =
                       Range(state.travel_context.collected_fields) \cup last'.extracted
                /\ IF done
                   THEN /\ state'.plan_ready
                        /\ ~state'.needs_user_input
                        /\ state'.current_state = "ready"
                        /\ state'.sharpening_turns = state.sharpening_turns
                   ELSE /\ ~state'.plan_ready
                        /\ state'.needs_user_input
                        /\ state'.current_state = "sharpening"
                        /\ state'.sharpening_turns = state.sharpening_turns + 1]_vars

\* The Sharpener has declared completion on the model's report alone
C17_Witness ==
    /\ last.node = "sharpener"
    /\ last.complete
    /\ ~RequiredCollected(state.travel_context)
    /\ state.plan_ready
    /\ state.current_state = "ready"

\* C18: a run of the Sharpener changes the value of a required field only by
\* extraction and adds to collected_fields only extracted names, whatever
\* defaults it applies; and with sharpening_turns >= 3, a required field still
\* uncollected and no completion reported by the model, it stays in Sharpening,
\* asks again and counts one more turn.
C18_DefaultsSpareRequired ==
    [][(pc = "sharpener" /\ pc' # "error")
          => LET old == state.travel_context
                 tc == state'.travel_context
             IN /\ \A f \in Range(REQUIRED_FIELDS) :
                      f \notin last'.extracted => tc[f] = old[f]
                /\ Range(tc.collected_fields) \subseteq
                       Range(old.collected_fields) \cup last'.extracted
                /\ (state.sharpening_turns >= 3 /\ ~RequiredCollected(tc)
                    /\ ~last'.complete)
                      => /\ state'.current_state = "sharpening"
                         /\ state'.needs_user_input
                         /\ state'.sharpening_turns = state.sharpening_turns + 1
                         /\ pc' = "end"]_vars

\* The Sharpener has run past the turn limit: defaults are set, the destination
\* is still missing and it asks again
C18_Witness ==
    /\ last.node = "sharpener"
    /\ state.sharpening_turns > 3
    /\ state.travel_context.motivation = "general"
    /\ state.travel_context.destination = None
    /\ state.current_state = "sharpening"
    /\ pc = "end"

\* The travel context a turn starts from: the snapshot's, or the conversation
\* row's when there is no snapshot
PersistedContext ==
    IF conv.exists /\ store.present THEN store.travel_context
    ELSE IF conv.exists THEN conv.travel_context
    ELSE create_empty_travel_context

\* C19: collected_fields never holds a name twice; a run of the Sharpener keeps
\* what was collected, in place, and adds exactly the extracted names that were
\* not yet there; no other step of a turn changes it, a turn starts from the
\* persisted list and a turn that ends persists the list it has.
C19_CollectedFieldsGrow ==
    [][LET old == state.travel_context.collected_fields
           new == state'.travel_context.collected_fields
       IN /\ NoDuplicates(new)
          /\ (pc = "sharpener" /\ pc' # "error")
                => /\ IsPrefix(old, new)
                   /\ Range(new) = Range(old) \cup last'.extracted
                   /\ Len(new) = Len(old) + Cardinality(last'.extracted \ Range(old))
          /\ (pc \in {"supervisor", "info", "action", "tools", "escalation"})
                => new = old
          /\ (pc = "idle" /\ pc' = "supervisor")
                => new = PersistedContext.collected_fields
          /\ (pc = "end")
                => /\ store'.travel_context.collected_fields = old
                   /\ conv'.travel_context.collected_fields = old]_vars

\* The Sharpener has run on a context that already held a field, and the model
\* extracted that field again together with new ones
C19_Witness ==
    /\ last.node = "sharpener"
    /\ last.extracted = {"destination", "departure_date", "return_date"}
    /\ PersistedContext.collected_fields = <<"destination", "motivation">>
    /\ state.travel_context.collected_fields =
           <<"destination", "motivation", "departure_date", "return_date">>

\* The newest message of the history
LastMessage(messages) == messages[Len(messages)]

C21_CountersNeverDecrease ==
    pc # "idle" =>
        /\ state.sharpening_turns >= seen.sharpening_turns
        /\ state.action_turns >= seen.action_turns

----------------------------------------------------------------------------
(* Two requests for one conversation id *)

\* send_message, a second request for the conversation, up to graph.ainvoke:
\* the same reads as StartTurn.  Nothing in send_message waits for another
\* request of the same conversation id, so there is no condition on pc
SecondRequestLoad ==
    /\ other.stage = "none"
    /\ conv.exists
    /\ other' = [stage |-> "loaded",
                 cached |-> store,
                 state |-> InitialState(
                     Append(LoadMessages(conv.messages), HumanMessage("hello")),
                     [store EXCEPT !.travel_context =
                          IF store.present THEN store.travel_context
                          ELSE conv.travel_context])]
    /\ UNCHANGED <<state, pc, steps, err, store, conv, turn, last, ran, reply,
                   seen, calc>>

\* The second request from graph.ainvoke to the commit, for a turn in which
\* the Router hands to the Sharpener without a model call and the Sharpener's
\* reply does not complete the plan: send_message then saves the two messages,
\* the snapshot and the travel context.  overwrote is the snapshot that was in
\* the state store when this request wrote its own
SecondRequestPersist ==
    /\ other.stage = "loaded"
    /\ ~SupervisorCallsLLM(other.state)
    /\ LET routed == supervisor_node(other.state, NoLLM)
       IN /\ route_from_supervisor(routed) = "sharpener"
          /\ \E o \in SharpenOutcomes :
                /\ o.kind # "error"
                /\ LET s == intent_sharpener_node(routed, o)
                   IN /\ route_after_sharpener(s) = "end"
                      /\ conv' = [exists |-> TRUE,
                                  messages |-> conv.messages \o
                                      <<[role |-> "user",
                                         content |-> LastUserMessage(s.messages)],
                                        [role |-> "assistant",
                                         content |-> ResponseText(s.messages)]>>,
                                  travel_context |-> s.travel_context]
                      /\ store' = Snapshot(s)
                      /\ seen' = Counters(s)
                      /\ other' = [stage |-> "done", cached |-> other.cached,
                                   overwrote |-> store, state |-> s]
    /\ UNCHANGED <<state, pc, steps, err, turn, last, ran, reply, calc>>

\* A conversation after one turn of sharpening, one turn before the turn bound
InitConc == InitSharp /\ store.sharpening_turns = 1

\* The snapshot's 24 hours do not pass while two requests are being served, and
\* without expiry the Router never sees phase Idle, so the Info handler is idle
NextConc ==
    \/ StartTurn
    \/ SupervisorNode
    \/ SharpenerNode
    \/ ActionNode
    \/ ToolsNode
    \/ EndTurn
    \/ FailTurn
    \/ SecondRequestLoad
    \/ SecondRequestPersist

SpecConc == InitConc /\ [][NextConc]_vars

\* C22: for one conversation id two turns are never in flight at the same
\* time: a turn loads the persisted state only after the previous turn's
\* persist, so the snapshot a request writes replaces the snapshot that
\* request loaded, and no other turn's update is overwritten
C22_PersistOverLoaded ==
    other.stage = "done" => other.overwrote = other.cached

C24_SnapshotIsNextTurnState ==
    (pc = "supervisor" /\ steps = 0 /\ store.present) =>
        /\ state.travel_context = store.travel_context
        /\ state.current_state = store.current_state
        /\ state.plan_ready = store.plan_ready
        /\ state.sharpening_turns = store.sharpening_turns
        /\ state.action_turns = store.action_turns
        /\ state.intent_category = store.intent_category
        /\ state.completed_tasks = store.completed_tasks
        /\ state.language = store.language

----------------------------------------------------------------------------
(* The snapshot round trip, applied on its own *)

MaxCollected == 3

RECURSIVE SeqsUpTo(_, _)
\* The lists over S of at most n elements
SeqsUpTo(S, n) ==
    IF n = 0 THEN {<<>>}
    ELSE SeqsUpTo(S, n - 1) \cup
         {Append(q, x) : q \in {r \in SeqsUpTo(S, n - 1) : Len(r) = n - 1}, x \in S}

\* The state a turn ends with: its phase and its list of collected fields
HeldState(current_state, collected_fields) ==
    [InitialState(<<>>, NoSnapshot) EXCEPT
        !.current_state = current_state,
        !.travel_context.collected_fields = collected_fields]

\* Any phase value and any list of required field names, duplicates included
InitTrip ==
    /\ Init!1 /\ Init!2 /\ Init!3 /\ Init!4 /\ Init!5 /\ Init!6 /\ Init!7
    /\ Init!8 /\ Init!9 /\ Init!10 /\ Init!11 /\ Init!12
    /\ \E current_state \in ConversationState :
       \E collected_fields \in SeqsUpTo(Range(REQUIRED_FIELDS), MaxCollected) :
          calc = [fn |-> "round_trip", stage |-> "held",
                  held |-> HeldState(current_state, collected_fields),
                  stored |-> NoSnapshot,
                  restored |-> InitialState(<<>>, NoSnapshot)]

\* chat() returns the state and send_message builds state_to_cache from it
SerializeSnapshot ==
    /\ calc.fn = "round_trip"
    /\ calc.stage = "held"
    /\ calc' = [calc EXCEPT !.stage = "stored", !.stored = Snapshot(calc.held)]
    /\ UNCHANGED <<state, pc, steps, err, store, conv, turn, last, ran, reply,
                   seen, other>>

\* The next request reads the snapshot and chat() builds initial_state from it
RestoreSnapshot ==
    /\ calc.fn = "round_trip"
    /\ calc.stage = "stored"
    /\ calc' = [calc EXCEPT !.stage = "restored",
                            !.restored = InitialState(<<>>, calc.stored)]
    /\ UNCHANGED <<state, pc, steps, err, store, conv, turn, last, ran, reply,
                   seen, other>>

NextTrip ==
    \/ SerializeSnapshot
    \/ RestoreSnapshot

SpecTrip == InitTrip /\ [][NextTrip]_vars

\* C25: round trip.  For every phase value and every list of collected
\* fields, writing the snapshot at the end of a turn and restoring it at the
\* next turn gives the same phase and the same set of collected fields
C25_RoundTrip ==
    (calc.fn = "round_trip" /\ calc.stage = "restored") =>
        /\ calc.restored.current_state = calc.held.current_state
        /\ Range(calc.restored.travel_context.collected_fields)
               = Range(calc.held.travel_context.collected_fields)

\* Phase ReadyForAction, whose value differs from its member name, made the
\* round trip with a list that names a field twice
C25_Witness ==
    /\ calc.fn = "round_trip"
    /\ calc.stage = "restored"
    /\ calc.held.current_state = "ready"
    /\ calc.held.travel_context.collected_fields
           = <<"destination", "return_date", "destination">>
    /\ calc.restored.current_state = "ready"

\* C26: a search runs only with the required trip fields present: whenever
\* the Action handler has run its Search phase, destination, departure_date
\* and return_date are all set in the travel context
C26_SearchHasRequiredFields ==
    (last.node = "action" /\ last.phase = SEARCH) =>
        \A i \in 1..Len(REQUIRED_FIELDS) :
            state.travel_context[REQUIRED_FIELDS[i]] # None

----------------------------------------------------------------------------
(* The Router in phase Idle, applied on its own *)

\* The histories the Router is given: without a user message (none at all, or
\* only an assistant message), one user message, or one after a stored exchange
RouteHistories ==
    {<<>>, <<AIMessage(LLM_TEXT)>>}
    \cup {<<HumanMessage(text)>> : text \in UserTexts}
    \cup {<<HumanMessage("hello"), AIMessage(LLM_TEXT), HumanMessage(text)>> :
              text \in UserTexts}

\* Phase Idle, with an empty travel context or the one a completed plan left in
\* the conversation row, and every reply of the classification that does not
\* raise
InitRoute ==
    /\ Init!1 /\ Init!2 /\ Init!3 /\ Init!4 /\ Init!5 /\ Init!6 /\ Init!7
    /\ Init!8 /\ Init!9 /\ Init!10 /\ Init!11 /\ Init!12
    /\ \E messages \in RouteHistories :
       \E travel_context \in {create_empty_travel_context, CompletedContext} :
          LET s == InitialState(messages,
                       [NoSnapshot EXCEPT !.travel_context = travel_context])
          IN \E c \in IF SupervisorCallsLLM(s)
                      THEN {x \in ClassifyOutcomes : x.kind # "error"}
                      ELSE {NoLLM} :
                calc = [fn |-> "supervisor_node", routed |-> FALSE,
                        s |-> s, c |-> c, out |-> s]

RouteIdle ==
    /\ calc.fn = "supervisor_node"
    /\ ~calc.routed
    /\ calc' = [calc EXCEPT !.routed = TRUE,
                            !.out = supervisor_node(calc.s, calc.c)]
    /\ UNCHANGED <<state, pc, steps, err, store, conv, turn, last, ran, reply,
                   seen, other>>

NextRoute == RouteIdle

SpecRoute == InitRoute /\ [][NextRoute]_vars

\* C27: in phase Idle the Router hands to the Action handler, with plan_ready
\* set, exactly when the classification is REACTIVE with destination and dates;
\* otherwise to the Info handler exactly when the category is INFO; otherwise
\* to the Sharpener.  The three outcomes are fixed by category, has_destination
\* and has_dates alone, so has_travelers changes nothing.  Without a user
\* message in the history the Router returns end
C27_IdleRouting ==
    (calc.fn = "supervisor_node" /\ calc.routed) =>
        LET c == calc.c
            out == calc.out
            direct == c.category = "REACTIVE" /\ c.has_destination /\ c.has_dates
        IN IF HumanIdx(calc.s.messages) = {}
           THEN out.next_agent = "end"
           ELSE /\ direct =>
                     /\ out.next_agent = "action"
                     /\ out.current_state = "action"
                     /\ out.plan_ready
                /\ (~direct /\ c.category = "INFO") =>
                     /\ out.next_agent = "info"
                     /\ out.current_state = "info"
                     /\ ~out.plan_ready
                /\ (~direct /\ c.category # "INFO") =>
                     /\ out.next_agent = "sharpener"
                     /\ out.current_state = "sharpening"
                     /\ ~out.plan_ready

\* A REACTIVE classification with destination and dates but without the number
\* of travelers was routed to the Action handler
C27_Witness ==
    /\ calc.fn = "supervisor_node"
    /\ calc.routed
    /\ calc.c.category = "REACTIVE"
    /\ calc.c.has_destination
    /\ calc.c.has_dates
    /\ ~calc.c.has_travelers
    /\ calc.out.next_agent = "action"
    /\ calc.out.plan_ready

----------------------------------------------------------------------------
(* The Sharpener's phase, applied on its own *)

\* Python's truth value of a field of the context
Truthy(value) == value \notin {None, PyFalse, ""}

\* Mutant of get_current_phase: the phase number kept in the context is returned
get_current_phase_stored(travel_context) == travel_context.current_phase

get_current_phase(travel_context) ==
    LET collected == travel_context.collected_fields
    IN IF ~Contains(collected, "destination") THEN 1
       ELSE IF ~(Contains(collected, "departure_date")
                 /\ Contains(collected, "return_date")) THEN 2
       ELSE IF ~(Contains(collected, "budget_max")
                 \/ Truthy(travel_context.budget_skipped)) THEN 3
       ELSE 4

\* The fields get_current_phase looks for
PhaseFields == <<"destination", "departure_date", "return_date", "budget_max">>

RECURSIVE FieldSeq(_, _)
\* The fields of S as a list, in the order of PhaseFields
FieldSeq(S, i) ==
    IF i > Len(PhaseFields) THEN <<>>
    ELSE (IF PhaseFields[i] \in S THEN <<PhaseFields[i]>> ELSE <<>>)
         \o FieldSeq(S, i + 1)

\* Any set of collected fields, any budget_skipped, and any phase number kept
\* under the context's current_phase key
InitPhase ==
    /\ Init!1 /\ Init!2 /\ Init!3 /\ Init!4 /\ Init!5 /\ Init!6 /\ Init!7
    /\ Init!8 /\ Init!9 /\ Init!10 /\ Init!11 /\ Init!12
    /\ \E S \in SUBSET Range(PhaseFields) :
       \E budget_skipped \in {None, PyTrue, PyFalse} :
       \E current_phase \in 1..4 :
          calc = [fn |-> "get_current_phase", done |-> FALSE, out |-> 0,
                  travel_context |->
                      [create_empty_travel_context EXCEPT
                           !.collected_fields = FieldSeq(S, 1),
                           !.budget_skipped = budget_skipped]
                      @@ [current_phase |-> current_phase]]

\* intent_sharpener_node: current_phase = get_current_phase(travel_context)
DerivePhase ==
    /\ calc.fn = "get_current_phase"
    /\ ~calc.done
    /\ calc' = [calc EXCEPT !.done = TRUE,
                            !.out = get_current_phase(calc.travel_context)]
    /\ UNCHANGED <<state, pc, steps, err, store, conv, turn, last, ran, reply,
                   seen, other>>

NextPhase == DerivePhase

SpecPhase == InitPhase /\ [][NextPhase]_vars

\* C28: the Sharpener's phase is a function of the travel context alone: 1 when
\* destination is not among the collected fields; else 2 when departure_date or
\* return_date is not; else 3 when budget_max is not and budget_skipped is not
\* true; else 4.  The phase number kept in the context has no influence
C28_PhaseFromContext ==
    (calc.fn = "get_current_phase" /\ calc.done) =>
        LET collected == Range(calc.travel_context.collected_fields)
            skipped == calc.travel_context.budget_skipped = PyTrue
        IN calc.out =
              IF "destination" \notin collected THEN 1
              ELSE IF {"departure_date", "return_date"} \ collected # {} THEN 2
              ELSE IF "budget_max" \notin collected /\ ~skipped THEN 3
              ELSE 4

\* Phase 4 was derived for a skipped budget, with phase number 1 kept in the
\* context
C28_Witness ==
    /\ calc.fn = "get_current_phase"
    /\ calc.done
    /\ calc.out = 4
    /\ ~Contains(calc.travel_context.collected_fields, "budget_max")
    /\ calc.travel_context.budget_skipped = PyTrue
    /\ calc.travel_context.current_phase = 1

----------------------------------------------------------------------------
(* core/escalation.py: the escalation analyzer, applied on its own *)

MaxUserMessages == 10
MaxSimilar == 3
MaxFailed == 2

ESCALATION_THRESHOLD == 50

\* Mutant of SIGNAL_WEIGHTS: a long conversation lowers the score
SIGNAL_WEIGHTS_subtract ==
    [explicit_request |-> 50, high_frustration |-> 30, medium_frustration |-> 15,
     repeated_requests |-> 25, complex_issue |-> 20, payment_dispute |-> 15,
     conversation_length |-> 0 - 10]

SIGNAL_WEIGHTS ==
    [explicit_request |-> 50, high_frustration |-> 30, medium_frustration |-> 15,
     repeated_requests |-> 25, complex_issue |-> 20, payment_dispute |-> 15,
     conversation_length |-> 10]

\* user_sentiment as the prompt lists it
Sentiments == <<"positive", "neutral", "negative", "very_negative">>

\* The messages argument: the user messages, then the assistant's last reply
EscalationMessages(humans, others) ==
    [i \in 1..humans |-> HumanMessage("hello")]
    \o (IF others THEN <<AIMessage(LLM_TEXT)>> ELSE <<>>)

\* The failed_actions argument
FailedActions(failed) == [i \in 1..failed |-> "book_flight"]

count_user_messages(messages) == Cardinality(HumanIdx(messages))

\* detect_repeated_requests: similar is the number of earlier user messages
\* whose share of common words with the latest one is above 0.4
detect_repeated_requests(messages, similar) ==
    IF Cardinality(HumanIdx(messages)) < 2 THEN 0 ELSE similar

\* The analysis the model returns as JSON
AnalysisReplies ==
    [kind : {"json"}, explicit_human_request : BOOLEAN, frustration_level : 1..5,
     issue_complexity : 1..5, involves_payment : BOOLEAN,
     user_sentiment : Range(Sentiments)]

\* The model call fails: which keyword lists match the last user message
FailedReplies ==
    [kind : {"error"}, kw_explicit : BOOLEAN, kw_frustration : BOOLEAN,
     kw_payment : BOOLEAN]

\* The model is not called
NoReply == [kind |-> "none"]

\* _fallback_analysis: the keyword heuristic for the same fields
_fallback_analysis(answer) ==
    [explicit_human_request |-> answer.kw_explicit,
     frustration_level |-> IF answer.kw_frustration THEN 4 ELSE 2,
     involves_payment |-> answer.kw_payment,
     issue_complexity |-> 2,
     user_sentiment |-> IF answer.kw_frustration THEN "negative" ELSE "neutral"]

_no_escalation == [should_escalate |-> FALSE, score |-> 0, urgency |-> "low"]

\* Mutant of analyze_escalation_need: the two frustration weights are tested
\* by two ifs, level 4 and 5 add both
analyze_escalation_need_both(in) ==
    LET messages == EscalationMessages(in.humans, in.others)
        failed_actions == FailedActions(in.failed)
    IN IF messages = <<>> THEN _no_escalation
       ELSE LET analysis == IF in.reply.kind = "json" THEN in.reply
                            ELSE _fallback_analysis(in.reply)
                score ==
                    (IF analysis.explicit_human_request
                     THEN SIGNAL_WEIGHTS.explicit_request ELSE 0)
                    + (IF analysis.frustration_level >= 4
                       THEN SIGNAL_WEIGHTS.high_frustration ELSE 0)
                    + (IF analysis.frustration_level >= 3
                       THEN SIGNAL_WEIGHTS.medium_frustration ELSE 0)
                    + (IF detect_repeated_requests(messages, in.similar) >= 3
                       THEN SIGNAL_WEIGHTS.repeated_requests ELSE 0)
                    + (IF analysis.issue_complexity >= 4
                       THEN SIGNAL_WEIGHTS.complex_issue ELSE 0)
                    + (IF analysis.involves_payment
                          /\ analysis.user_sentiment \in {"negative", "very_negative"}
                       THEN SIGNAL_WEIGHTS.payment_dispute ELSE 0)
                    + (IF count_user_messages(messages) >= 10
                       THEN SIGNAL_WEIGHTS.conversation_length ELSE 0)
                    + (IF failed_actions # <<>> /\ Len(failed_actions) >= 2
                       THEN 15 ELSE 0)
            IN [should_escalate |-> score >= ESCALATION_THRESHOLD,
                score |-> score,
                urgency |-> IF score >= 70 THEN "high"
                            ELSE IF score >= 50 THEN "medium" ELSE "low"]

\* analyze_escalation_need: should_escalate, score and urgency of its result
analyze_escalation_need(in) ==
    LET messages == EscalationMessages(in.humans, in.others)
        failed_actions == FailedActions(in.failed)
    IN IF messages = <<>> THEN _no_escalation
       ELSE LET analysis == IF in.reply.kind = "json" THEN in.reply
                            ELSE _fallback_analysis(in.reply)
                score ==
                    (IF analysis.explicit_human_request
                     THEN SIGNAL_WEIGHTS.explicit_request ELSE 0)
                    + (IF analysis.frustration_level >= 4
                       THEN SIGNAL_WEIGHTS.high_frustration
                       ELSE IF analysis.frustration_level = 3
                       THEN SIGNAL_WEIGHTS.medium_frustration ELSE 0)
                    + (IF detect_repeated_requests(messages, in.similar) >= 3
                       THEN SIGNAL_WEIGHTS.repeated_requests ELSE 0)
                    + (IF analysis.issue_complexity >= 4
                       THEN SIGNAL_WEIGHTS.complex_issue ELSE 0)
                    + (IF analysis.involves_payment
                          /\ analysis.user_sentiment \in {"negative", "very_negative"}
                       THEN SIGNAL_WEIGHTS.payment_dispute ELSE 0)
                    + (IF count_user_messages(messages) >= 10
                       THEN SIGNAL_WEIGHTS.conversation_length ELSE 0)
                    + (IF failed_actions # <<>> /\ Len(failed_actions) >= 2
                       THEN 15 ELSE 0)
            IN [should_escalate |-> score >= ESCALATION_THRESHOLD,
                score |-> score,
                urgency |-> IF score >= 70 THEN "high"
                            ELSE IF score >= 50 THEN "medium" ELSE "low"]

\* The arguments of one analysis: similar counts earlier user messages, the
\* model is called only for a history that is not empty, and keywords are
\* found only in a user message
ValidInput(in) ==
    /\ in.humans \in 0..MaxUserMessages
    /\ in.similar \in 0..MaxSimilar
    /\ in.similar <= (IF in.humans = 0 THEN 0 ELSE in.humans - 1)
    /\ in.failed \in 0..MaxFailed
    /\ (in.humans = 0 /\ ~in.others) <=> in.reply = NoReply
    /\ (in.reply.kind = "error" /\ in.humans = 0) =>
           ~(in.reply.kw_explicit \/ in.reply.kw_frustration \/ in.reply.kw_payment)

EscalationInputs ==
    {in \in [humans : 0..MaxUserMessages, others : BOOLEAN, similar : 0..MaxSimilar,
             failed : 0..MaxFailed,
             reply : AnalysisReplies \cup FailedReplies \cup {NoReply}] :
         ValidInput(in)}

InitEsc ==
    /\ Init!1 /\ Init!2 /\ Init!3 /\ Init!4 /\ Init!5 /\ Init!6 /\ Init!7
    /\ Init!8 /\ Init!9 /\ Init!10 /\ Init!11 /\ Init!12
    /\ \E in \in EscalationInputs :
          calc = [fn |-> "analyze_escalation_need", done |-> FALSE,
                  again |-> FALSE, in |-> in, out |-> _no_escalation]

AnalyzeEscalation ==
    /\ calc.fn = "analyze_escalation_need"
    /\ ~calc.done
    /\ calc' = [calc EXCEPT !.done = TRUE, !.out = analyze_escalation_need(calc.in)]
    /\ UNCHANGED <<state, pc, steps, err, store, conv, turn, last, ran, reply,
                   seen, other>>

\* str.index of the sentiment in the prompt's list
SentimentIdx(sentiment) == CHOOSE i \in 1..Len(Sentiments) : Sentiments[i] = sentiment

\* The model's reply with one signal more: the explicit request, one more level
\* of frustration or complexity, payment, a more negative sentiment, or one
\* more keyword list matching
StrongerReplies(answer) ==
    IF answer.kind = "json"
    THEN {[answer EXCEPT !.explicit_human_request = TRUE],
          [answer EXCEPT !.frustration_level = IF @ < 5 THEN @ + 1 ELSE @],
          [answer EXCEPT !.issue_complexity = IF @ < 5 THEN @ + 1 ELSE @],
          [answer EXCEPT !.involves_payment = TRUE],
          [answer EXCEPT !.user_sentiment =
               Sentiments[IF SentimentIdx(@) < Len(Sentiments)
                          THEN SentimentIdx(@) + 1 ELSE SentimentIdx(@)]]}
    ELSE IF answer.kind = "error"
    THEN {[answer EXCEPT !.kw_explicit = TRUE],
          [answer EXCEPT !.kw_frustration = TRUE],
          [answer EXCEPT !.kw_payment = TRUE]}
    ELSE {answer}

\* The reply of a model that finds nothing
CalmReply ==
    [kind |-> "json", explicit_human_request |-> FALSE, frustration_level |-> 1,
     issue_complexity |-> 1, involves_payment |-> FALSE, user_sentiment |-> "positive"]

\* No weight is added for this reply
NoSignal(answer) ==
    IF answer.kind = "json"
    THEN /\ ~answer.explicit_human_request
         /\ answer.frustration_level < 3
         /\ answer.issue_complexity < 4
         /\ ~(answer.involves_payment
              /\ answer.user_sentiment \in {"negative", "very_negative"})
    ELSE IF answer.kind = "error"
    THEN ~answer.kw_explicit /\ ~answer.kw_frustration
    ELSE TRUE

\* The arguments of a second analysis, in which every signal of in is still
\* there and one was added: a stronger reply of the model, one
\* more similar request, one more user message or one more failed action.
\* What is no signal may change too: the assistant's message at the end of the
\* history is there or not, and with it a reply of the model without signal
MoreSignals(in) ==
    {b \in {[in EXCEPT !.reply = r] : r \in StrongerReplies(in.reply)}
           \cup {[in EXCEPT !.similar = @ + 1], [in EXCEPT !.humans = @ + 1],
                 [in EXCEPT !.failed = @ + 1]}
           \cup (IF NoSignal(in.reply)
                 THEN {[in EXCEPT !.others = ~@,
                                  !.reply = IF in.humans = 0 /\ in.others THEN NoReply
                                            ELSE IF in.reply = NoReply THEN CalmReply
                                            ELSE in.reply]}
                 ELSE {}) :
        b # in /\ ValidInput(b)}

\* The analyzer is called a second time, with the signals of the first call
\* and more
AnalyzeAgain ==
    /\ calc.fn = "analyze_escalation_need"
    /\ calc.done
    /\ \E b \in MoreSignals(calc.in) :
          calc' = [calc EXCEPT !.again = TRUE, !.in = b,
                              !.out = analyze_escalation_need(b)]
    /\ UNCHANGED <<state, pc, steps, err, store, conv, turn, last, ran, reply,
                   seen, other>>

NextEsc ==
    \/ AnalyzeEscalation
    \/ AnalyzeAgain

SpecEsc == InitEsc /\ [][NextEsc]_vars

\* The sum of the weights of the signals that fire for the arguments in: the
\* signals of the analysis (the model's, or the keyword heuristic's when the
\* model call fails), the repeated requests, the user messages and the failed
\* actions
SignalSum(in) ==
    LET analysis == IF in.reply.kind = "json" THEN in.reply
                    ELSE IF in.reply.kind = "error" THEN _fallback_analysis(in.reply)
                    ELSE CalmReply
    IN (IF analysis.explicit_human_request THEN 50 ELSE 0)
       + (IF analysis.frustration_level >= 4 THEN 30 ELSE 0)
       + (IF analysis.frustration_level = 3 THEN 15 ELSE 0)
       + (IF in.similar >= 3 THEN 25 ELSE 0)
       + (IF analysis.issue_complexity >= 4 THEN 20 ELSE 0)
       + (IF analysis.involves_payment
             /\ analysis.user_sentiment \in {"negative", "very_negative"}
          THEN 15 ELSE 0)
       + (IF in.humans >= 10 THEN 10 ELSE 0)
       + (IF in.failed >= 2 THEN 15 ELSE 0)

\* should_escalate and urgency follow the score: escalate from 50 on, urgency
\* high from 70 on, medium from 50 to 69, low below
DecisionFollowsScore(out) ==
    /\ out.should_escalate <=> out.score >= 50
    /\ out.urgency = "high" <=> out.score >= 70
    /\ out.urgency = "medium" <=> (out.score >= 50 /\ out.score < 70)
    /\ out.urgency = "low" <=> out.score < 50
    /\ out.should_escalate <=> out.urgency # "low"

\* C29: the escalation score is the sum of the weights of exactly the signals
\* that fire (explicit request 50, frustration 4 or 5: 30, frustration 3: 15,
\* 3 or more repeated requests 25, complexity 4 or 5: 20, payment with a
\* negative or very negative sentiment 15, 10 or more user messages 10, 2 or
\* more failed actions 15); should_escalate is true iff the score is at least
\* 50; urgency is high iff it is at least 70, medium from 50 to 69, low below
C29_ScoreIsSignalSum ==
    (calc.fn = "analyze_escalation_need" /\ calc.done) =>
        /\ calc.out.score = SignalSum(calc.in)
        /\ DecisionFollowsScore(calc.out)

\* C29, amended: for a history that is not empty the score is that sum; for an
\* empty history the score is 0 whatever the failed actions.  In both cases
\* should_escalate and urgency follow the score
C29_ScoreOfHistory ==
    (calc.fn = "analyze_escalation_need" /\ calc.done) =>
        /\ calc.out.score = IF calc.in.humans = 0 /\ ~calc.in.others THEN 0
                            ELSE SignalSum(calc.in)
        /\ DecisionFollowsScore(calc.out)

\* Frustration 3, three repeated requests and ten user messages give 50: the
\* analysis escalates with urgency medium
C29_Witness ==
    /\ calc.fn = "analyze_escalation_need"
    /\ calc.done
    /\ calc.in.reply.kind = "json"
    /\ calc.in.reply.frustration_level = 3
    /\ calc.in.similar >= 3
    /\ calc.in.humans >= 10
    /\ calc.out.score = 50
    /\ calc.out.should_escalate
    /\ calc.out.urgency = "medium"

\* C30: the escalation score is monotonic.  When a second analysis has every
\* firing signal of the first and possibly more (a higher frustration level,
\* more repeated requests, more user messages, more failed actions), its score
\* is not lower, and an escalation decided by the first is decided by the
\* second
C30_ScoreMonotonic ==
    [][(calc.fn = "analyze_escalation_need" /\ calc.done /\ calc'.done) =>
           /\ calc'.out.score >= calc.out.score
           /\ calc.out.should_escalate => calc'.out.should_escalate]_vars

\* C30, amended: the same, for a second analysis over a history that is not
\* empty
C30_ScoreMonotonicOverHistory ==
    [][(/\ calc.fn = "analyze_escalation_need"
        /\ calc.done
        /\ calc'.done
        /\ EscalationMessages(calc'.in.humans, calc'.in.others) # <<>>) =>
           /\ calc'.out.score >= calc.out.score
           /\ calc.out.should_escalate => calc'.out.should_escalate]_vars

\* A second analysis, with every countable signal at its bound, escalates
C30_Witness ==
    /\ calc.fn = "analyze_escalation_need"
    /\ calc.again
    /\ calc.in.humans = MaxUserMessages
    /\ calc.in.similar = MaxSimilar
    /\ calc.in.failed = MaxFailed
    /\ calc.out.should_escalate

----------------------------------------------------------------------------
(* core/escalation.py: the range of the score *)

\* C31: the score analyze_escalation_need returns is an integer between 0 and
\* 100, whatever signals fire
C31_ScoreInRange ==
    (calc.fn = "analyze_escalation_need" /\ calc.done) =>
        calc.out.score \in 0..100

----------------------------------------------------------------------------
(* core/escalation.py: detect_repeated_requests over the words of the messages *)

MaxRepMessages == 3

\* str.lower() on the words the messages below are made of
LowerWord(word) ==
    IF word = "I" THEN "i"
    ELSE IF word = "Refund" THEN "refund"
    ELSE IF word = "Paris" THEN "paris"
    ELSE word

stop_words ==
    {"i", "the", "a", "an", "to", "my", "please", "said", "want", "need", "can", "you"}

\* set(msg.content.lower().split()) - stop_words, the content given as the
\* sequence of its whitespace-separated pieces
content_words(content) == {LowerWord(content[i]) : i \in 1..Len(content)} \ stop_words

\* min(a, b)
min(a, b) == IF a < b THEN a ELSE b

\* Mutant of ratio_above: a share of exactly 0.4 is enough
ratio_above_or_equal(last_words, prev_words) ==
    /\ last_words # {} /\ prev_words # {}
    /\ 5 * Cardinality(last_words \cap prev_words)
           >= 2 * min(Cardinality(last_words), Cardinality(prev_words))

\* "if last_words and prev_words: ... if ratio > 0.4" with
\* ratio = common / min(len(last_words), len(prev_words)).  The quotient of two
\* small integers compared with the float 0.4 is above it exactly when
\* 5 * common > 2 * min
ratio_above(last_words, prev_words) ==
    /\ last_words # {} /\ prev_words # {}
    /\ 5 * Cardinality(last_words \cap prev_words)
           > 2 * min(Cardinality(last_words), Cardinality(prev_words))

RECURSIVE similar_count(_, _)
\* The loop over user_messages[:-1], prev being the messages not yet visited
similar_count(last_words, prev) ==
    IF prev = <<>> THEN 0
    ELSE (IF ratio_above(last_words, content_words(Head(prev))) THEN 1 ELSE 0)
         + similar_count(last_words, Tail(prev))

\* [msg.content.lower() for msg in messages if isinstance(msg, HumanMessage)]
user_messages(messages) ==
    LET human == SelectSeq(messages, LAMBDA msg : msg.type = "human")
    IN [i \in 1..Len(human) |-> human[i].content]

\* detect_repeated_requests(messages), the contents as sequences of words
detect_repeated_requests_words(messages) ==
    LET contents == user_messages(messages)
    IN IF Len(contents) < 2 THEN 0
       ELSE similar_count(content_words(contents[Len(contents)]),
                          SubSeq(contents, 1, Len(contents) - 1))

\* What the users of the checked histories write
Utterances ==
    {<<"I", "want", "a", "Refund">>,
     <<"refund", "please">>,
     <<"can", "you">>,
     <<"flight", "Paris", "monday", "cheap", "direct">>,
     <<"flight", "paris", "hotel", "rome", "friday">>,
     <<"flight", "paris", "monday", "hotel", "rome">>,
     <<"hello">>,
     <<>>}

RepeatMessages ==
    {HumanMessage(u) : u \in Utterances} \cup {AIMessage(<<"refund", "please">>)}

RECURSIVE HistoriesUpTo(_)
HistoriesUpTo(n) ==
    IF n = 0 THEN {<<>>}
    ELSE HistoriesUpTo(n - 1)
         \cup {Append(h, m) : h \in {g \in HistoriesUpTo(n - 1) : Len(g) = n - 1},
                              m \in RepeatMessages}

InitRepeat ==
    /\ Init!1 /\ Init!2 /\ Init!3 /\ Init!4 /\ Init!5 /\ Init!6 /\ Init!7
    /\ Init!8 /\ Init!9 /\ Init!10 /\ Init!11 /\ Init!12
    /\ \E messages \in HistoriesUpTo(MaxRepMessages) :
          calc = [fn |-> "detect_repeated_requests", done |-> FALSE, out |-> 0,
                  messages |-> messages]

DetectRepeated ==
    /\ calc.fn = "detect_repeated_requests"
    /\ ~calc.done
    /\ calc' = [calc EXCEPT !.done = TRUE,
                            !.out = detect_repeated_requests_words(calc.messages)]
    /\ UNCHANGED <<state, pc, steps, err, store, conv, turn, last, ran, reply,
                   seen, other>>

NextRepeat == DetectRepeated

SpecRepeat == InitRepeat /\ [][NextRepeat]_vars

\* The words of message i that are no stop words
TokenSet(messages, i) ==
    {LowerWord(w) : w \in Range(messages[i].content)} \ stop_words

\* |A \cap B| / min(|A|, |B|) of the token sets of messages i and j, times 5,
\* against 0.4 times 5: "above", "equal", "below", or "undefined" when a set is
\* empty
ShareOfCommon(messages, i, j) ==
    LET A == TokenSet(messages, i)
        B == TokenSet(messages, j)
        small == IF Cardinality(A) < Cardinality(B) THEN Cardinality(A)
                 ELSE Cardinality(B)
    IN IF small = 0 THEN "undefined"
       ELSE IF 5 * Cardinality(A \cap B) > 2 * small THEN "above"
       ELSE IF 5 * Cardinality(A \cap B) = 2 * small THEN "equal"
       ELSE "below"

\* C32: the repeated-request count is the number of earlier user messages whose
\* share of common non-stop words with the latest user message is above 0.4;
\* with fewer than two user messages it is 0; of two user messages, the earlier
\* one is counted when the two have the same words (share 1.0), not counted
\* when they have none in common (share 0) and not counted at a share of
\* exactly 0.4
C32_RepeatedCount ==
    (calc.fn = "detect_repeated_requests" /\ calc.done) =>
        LET user == HumanIdx(calc.messages)
            latest == MaxOf(user)
            A(i) == TokenSet(calc.messages, i)
        IN /\ Cardinality(user) < 2 => calc.out = 0
           /\ Cardinality(user) >= 2 =>
                  calc.out = Cardinality({i \in user \ {latest} :
                                 ShareOfCommon(calc.messages, i, latest) = "above"})
           /\ Cardinality(user) = 2 =>
                  \A i \in user \ {latest} :
                      /\ (A(i) = A(latest) /\ A(i) # {}) => calc.out = 1
                      /\ A(i) \cap A(latest) = {} => calc.out = 0
                      /\ ShareOfCommon(calc.messages, i, latest) = "equal" =>
                             calc.out = 0

\* Three user messages: one earlier message at a share of exactly 0.4 is not
\* counted, the other one, above 0.4, is
C32_Witness ==
    /\ calc.fn = "detect_repeated_requests"
    /\ calc.done
    /\ Cardinality(HumanIdx(calc.messages)) = 3
    /\ calc.out = 1
    /\ \E i \in HumanIdx(calc.messages) \ {MaxOf(HumanIdx(calc.messages))} :
          ShareOfCommon(calc.messages, i, MaxOf(HumanIdx(calc.messages))) = "equal"

----------------------------------------------------------------------------
(* agents/action_agent.py: the selection and the confirmation detector over   *)
(* the text of the messages.  A content is the sequence of its pieces: words, *)
(* digits, blanks and punctuation marks                                        *)

MaxDetectMessages == 4

\* msg.content.lower(), piece by piece
lower(content) == [i \in 1..Len(content) |-> 
                      IF content[i] = "Second" THEN "second" ELSE LowerWord(content[i])]

\* content.replace("ü", "u").replace("ö", "o").replace("ç", "c").replace("ı", "i")
content_normalized(content) ==
    [i \in 1..Len(content) |->
        IF content[i] = "üçüncü" THEN "ucuncu"
        ELSE IF content[i] = "dördüncü" THEN "dorduncu"
        ELSE content[i]]

\* "kw in content": the pieces of kw stand next to each other in content
Occurs(kw, content) ==
    \E i \in 1..Len(content) :
        /\ i + Len(kw) - 1 <= Len(content)
        /\ SubSeq(content, i, i + Len(kw) - 1) = kw

\* \w of the regular expression: the piece is made of word characters
WordPiece(piece) == piece \notin {" ", ".", ",", "!"}

DigitValue ==
    ("1" :> 1) @@ ("2" :> 2) @@ ("3" :> 3) @@ ("4" :> 4) @@ ("5" :> 5)
    @@ ("6" :> 6) @@ ("7" :> 7) @@ ("8" :> 8) @@ ("9" :> 9) @@ ("0" :> 0)

\* re.search(r'\b([1-5])\b', content): the positions where it matches
number_match(content) ==
    {i \in 1..Len(content) :
        /\ content[i] \in {"1", "2", "3", "4", "5"}
        /\ (i = 1 \/ ~WordPiece(content[i - 1]))
        /\ (i = Len(content) \/ ~WordPiece(content[i + 1]))}

\* ordinal_map.items(), in the order of the dict
ordinal_map ==
    <<[word |-> <<"first">>, num |-> 1], [word |-> <<"second">>, num |-> 2],
      [word |-> <<"third">>, num |-> 3], [word |-> <<"fourth">>, num |-> 4],
      [word |-> <<"fifth">>, num |-> 5], [word |-> <<"ilk">>, num |-> 1],
      [word |-> <<"birinci">>, num |-> 1], [word |-> <<"ikinci">>, num |-> 2],
      [word |-> <<"ucuncu">>, num |-> 3], [word |-> <<"dorduncu">>, num |-> 4],
      [word |-> <<"1", ".">>, num |-> 1], [word |-> <<"2", ".">>, num |-> 2],
      [word |-> <<"3", ".">>, num |-> 3]>>

preference_keywords ==
    {<<"cheapest">>, <<"en", " ", "ucuz">>, <<"ucuz", " ", "olan">>,
     <<"first", " ", "one">>, <<"ilk">>}

\* The dotless i of the seventh Turkish keyword is written i
confirm_keywords ==
    {<<"yes">>, <<"yeah">>, <<"yep">>, <<"sure">>, <<"ok">>, <<"okay">>, <<"confirm">>,
     <<"book", " ", "it">>, <<"go", " ", "ahead">>, <<"proceed">>, <<"do", " ", "it">>,
     <<"please", " ", "book">>, <<"make", " ", "the", " ", "booking">>,
     <<"let's", " ", "do", " ", "it">>, <<"sounds", " ", "good">>, <<"perfect">>,
     <<"great">>,
     <<"evet">>, <<"tamam">>, <<"olur">>, <<"onayla">>, <<"rezerve", " ", "et">>,
     <<"ayir">>, <<"yap">>, <<"devam">>, <<"kesinlikle">>, <<"tabi">>,
     <<"rezervasyon", " ", "yap">>}

NoSelection == [type |-> "none", value |-> 0]

\* The body of the loop of _detect_user_selection for one user message
selection_in(msg_content) ==
    LET content == lower(msg_content)
        matching == {k \in 1..Len(ordinal_map) :
                        \/ Occurs(ordinal_map[k].word, content)
                        \/ Occurs(ordinal_map[k].word, content_normalized(content))}
    IN IF number_match(content) # {}
       THEN [type |-> "number", value |-> DigitValue[content[MinOf(number_match(content))]]]
       ELSE IF matching # {}
       THEN [type |-> "ordinal", value |-> ordinal_map[MinOf(matching)].num]
       ELSE IF \E kw \in preference_keywords : Occurs(kw, content)
       THEN [type |-> "preference", value |-> 1]
       ELSE NoSelection

RECURSIVE selection_scan_all(_)
\* The loop without its break: a user message without a selection lets it go
\* on to the message before
selection_scan_all(window) ==
    IF window = <<>> THEN NoSelection
    ELSE LET msg == window[Len(window)]
         IN IF msg.type = "human" /\ selection_in(msg.content) # NoSelection
            THEN selection_in(msg.content)
            ELSE selection_scan_all(SubSeq(window, 1, Len(window) - 1))

RECURSIVE selection_scan(_)
\* "for msg in reversed(window)": return or break at the first HumanMessage
selection_scan(window) ==
    IF window = <<>> THEN NoSelection
    ELSE LET msg == window[Len(window)]
         IN IF msg.type = "human" THEN selection_in(msg.content)
            ELSE selection_scan(SubSeq(window, 1, Len(window) - 1))

\* Mutant of detect_user_selection: the loop has no break
detect_user_selection_no_break(messages) == selection_scan_all(LastN(messages, 3))

\* _detect_user_selection with the dict (or None) it returns
detect_user_selection(messages) == selection_scan(LastN(messages, 3))

RECURSIVE confirmation_scan(_)
confirmation_scan(window) ==
    IF window = <<>> THEN FALSE
    ELSE LET msg == window[Len(window)]
         IN IF msg.type = "human"
            THEN \E kw \in confirm_keywords : Occurs(kw, lower(msg.content))
            ELSE confirmation_scan(SubSeq(window, 1, Len(window) - 1))

\* _detect_user_confirmation over the text of the messages
detect_user_confirmation(messages) == confirmation_scan(LastN(messages, 2))

\* What the users of the checked histories write
SelectionContents ==
    {<<"yes", ",", " ", "option", " ", "2">>,
     <<"2", "1", ".">>,
     <<"Second", " ", "not", " ", "first">>,
     <<"üçüncü">>,
     <<"cheapest">>,
     <<"first", " ", "one">>,
     <<"5", " ", "not", " ", "first">>,
     <<"okay">>,
     <<"hello", " ", "6">>}

DetectMessages ==
    {HumanMessage(c) : c \in SelectionContents}
    \cup {AIMessage(<<"yes", ",", " ", "option", " ", "1">>)}

RECURSIVE DetectHistories(_)
DetectHistories(n) ==
    IF n = 0 THEN {<<>>}
    ELSE DetectHistories(n - 1)
         \cup {Append(h, m) : h \in {g \in DetectHistories(n - 1) : Len(g) = n - 1},
                              m \in DetectMessages}

InitDetect ==
    /\ Init!1 /\ Init!2 /\ Init!3 /\ Init!4 /\ Init!5 /\ Init!6 /\ Init!7
    /\ Init!8 /\ Init!9 /\ Init!10 /\ Init!11 /\ Init!12
    /\ \E messages \in DetectHistories(MaxDetectMessages) :
       \E fn \in {"_detect_user_selection", "_detect_user_confirmation"} :
          calc = [fn |-> fn, done |-> FALSE, selection |-> NoSelection,
                  confirmation |-> FALSE, messages |-> messages]

DetectSelection ==
    /\ calc.fn = "_detect_user_selection"
    /\ ~calc.done
    /\ calc' = [calc EXCEPT !.done = TRUE,
                            !.selection = detect_user_selection(calc.messages)]
    /\ UNCHANGED <<state, pc, steps, err, store, conv, turn, last, ran, reply,
                   seen, other>>

DetectConfirmation ==
    /\ calc.fn = "_detect_user_confirmation"
    /\ ~calc.done
    /\ calc' = [calc EXCEPT !.done = TRUE,
                            !.confirmation = detect_user_confirmation(calc.messages)]
    /\ UNCHANGED <<state, pc, steps, err, store, conv, turn, last, ran, reply,
                   seen, other>>

NextDetect ==
    \/ DetectSelection
    \/ DetectConfirmation

SpecDetect == InitDetect /\ [][NextDetect]_vars

\* The user messages among the last n messages, by their index
UserAmongLast(messages, n) ==
    {i \in HumanIdx(messages) : i > Len(messages) - n}

\* The words of a content, in lower case, diacritics as they are and replaced
WordsOf(content) ==
    Range(lower(content)) \cup Range(content_normalized(lower(content)))

\* The ordinal table, each word with its value; "1.", "2." and "3." are a
\* digit with a full stop after it
OrdinalValues(content) ==
    {ordinal_map[k].num : k \in {j \in 1..10 :
                                    ordinal_map[j].word[1] \in WordsOf(content)}}
    \cup {DigitValue[d] : d \in {e \in {"1", "2", "3"} :
                                    Occurs(<<e, ".">>, lower(content))}}

\* The digits 1 to 5 of a content that stand on their own
LoneDigits(content) ==
    {DigitValue[content[i]] : i \in number_match(content)}

\* C33: the selection detector looks only at the most recent user message
\* among the last 3 messages, none being found when there is no user message
\* there; it classifies that message by strict precedence: a digit 1-5 on a
\* word boundary gives a number, else a word of the ordinal table (after the
\* diacritics are replaced) gives an ordinal with that word's value, else a
\* phrase of the cheapest list gives preference 1, else none.  The
\* confirmation detector looks only at the most recent user message among the
\* last 2 messages
C33_MostRecentUserMessage ==
    /\ (calc.fn = "_detect_user_selection" /\ calc.done) =>
           LET user == UserAmongLast(calc.messages, 3)
               content == calc.messages[MaxOf(user)].content
           IN IF user = {} THEN calc.selection = NoSelection
              ELSE IF LoneDigits(content) # {}
              THEN /\ calc.selection.type = "number"
                   /\ calc.selection.value \in LoneDigits(content)
              ELSE IF OrdinalValues(content) # {}
              THEN /\ calc.selection.type = "ordinal"
                   /\ calc.selection.value \in OrdinalValues(content)
              ELSE IF \E kw \in preference_keywords : Occurs(kw, lower(content))
              THEN calc.selection = [type |-> "preference", value |-> 1]
              ELSE calc.selection = NoSelection
    /\ (calc.fn = "_detect_user_confirmation" /\ calc.done) =>
           LET user == UserAmongLast(calc.messages, 2)
           IN calc.confirmation =
                  (/\ user # {}
                   /\ \E kw \in confirm_keywords :
                         Occurs(kw, lower(calc.messages[MaxOf(user)].content)))

\* An older user message chose option 2, the most recent one among the last 3
\* messages chooses nothing: no selection is found
C33_Witness ==
    /\ calc.fn = "_detect_user_selection"
    /\ calc.done
    /\ Len(calc.messages) = 4
    /\ calc.messages[1] = HumanMessage(<<"yes", ",", " ", "option", " ", "2">>)
    /\ calc.messages[2] = HumanMessage(<<"okay">>)
    /\ calc.messages[3].type = "ai"
    /\ calc.messages[4].type = "ai"
    /\ calc.selection = NoSelection

----------------------------------------------------------------------------
(* services/flight/offer_cache.py: the in-memory cache of raw flight offers. *)
(* Time is counted in minutes                                                 *)

MaxNow == 30
TickMinutes == 10
MaxFlights == 1

\* timedelta(minutes=20)
OfferMinutes == 20

OfferIds == {"OFFER_1", "OFFER_2"}

\* The raw_data argument: a dict with its "type" and "id" entries (None for an
\* entry the dict does not have), or a value that is no dict
RawOffers ==
    [kind : {"dict"}, type : {"flight-offer"}, id : OfferIds \cup {None}]
    \cup {[kind |-> "dict", type |-> None, id |-> "OFFER_1"],
          [kind |-> "str", type |-> None, id |-> None]}

\* get_offer's "return None"
NoOffer == [kind |-> "None", type |-> None, id |-> None]

\* A key that is not in _offer_cache
NoEntry == [present |-> FALSE, raw |-> NoOffer, expires_at |-> 0]

\* The history of store_offer: no call for this id yet
NoStore == [called |-> FALSE, raw |-> NoOffer, at |-> 0]

store_offer(_offer_cache, offer_id, raw_data, now) ==
    IF raw_data.kind # "dict" THEN _offer_cache
    ELSE IF raw_data.type # "flight-offer" THEN _offer_cache
    ELSE [_offer_cache EXCEPT ![offer_id] =
              [present |-> TRUE, raw |-> raw_data, expires_at |-> now + OfferMinutes]]

\* Mutant of get_offer: an expired entry is returned and kept
get_offer_expired(_offer_cache, offer_id, now) ==
    LET entry == _offer_cache[offer_id]
    IN IF ~entry.present THEN [cache |-> _offer_cache, result |-> NoOffer]
       ELSE IF entry.raw.kind # "dict" THEN [cache |-> _offer_cache, result |-> NoOffer]
       ELSE [cache |-> _offer_cache, result |-> entry.raw]

\* get_offer: the value it returns and the cache it leaves
get_offer(_offer_cache, offer_id, now) ==
    LET entry == _offer_cache[offer_id]
    IN IF ~entry.present THEN [cache |-> _offer_cache, result |-> NoOffer]
       ELSE IF now > entry.expires_at
       THEN [cache |-> [_offer_cache EXCEPT ![offer_id] = NoEntry], result |-> NoOffer]
       ELSE IF entry.raw.kind # "dict" THEN [cache |-> _offer_cache, result |-> NoOffer]
       ELSE [cache |-> _offer_cache, result |-> entry.raw]

\* The flights of cache_offers' loop that reach store_offer(offer_id, flight)
StoredFlights(flights) ==
    SelectSeq(flights, LAMBDA flight : /\ flight.kind = "dict"
                                       /\ flight.id # None
                                       /\ flight.type = "flight-offer")

RECURSIVE cache_offers(_, _, _)
cache_offers(_offer_cache, flights, now) ==
    IF flights = <<>> THEN _offer_cache
    ELSE LET flight == Head(flights)
         IN IF flight.kind # "dict" THEN cache_offers(_offer_cache, Tail(flights), now)
            ELSE IF flight.id = None THEN cache_offers(_offer_cache, Tail(flights), now)
            ELSE IF flight.type # "flight-offer"
            THEN cache_offers(_offer_cache, Tail(flights), now)
            ELSE cache_offers(store_offer(_offer_cache, flight.id, flight, now),
                              Tail(flights), now)

\* The flights argument: a list of up to MaxFlights values
FlightLists ==
    UNION {[1..n -> RawOffers] : n \in 0..MaxFlights}

RECURSIVE CallsOf(_, _, _)
\* The history after store_offer was called for each of the flights in turn
CallsOf(history, flights, now) ==
    IF flights = <<>> THEN history
    ELSE CallsOf([history EXCEPT ![Head(flights).id] =
                      [called |-> TRUE, raw |-> Head(flights), at |-> now]],
                 Tail(flights), now)

InitOffers ==
    /\ Init!1 /\ Init!2 /\ Init!3 /\ Init!4 /\ Init!5 /\ Init!6 /\ Init!7
    /\ Init!8 /\ Init!9 /\ Init!10 /\ Init!11 /\ Init!12
    /\ calc = [fn |-> "offer_cache",
               _offer_cache |-> [id \in OfferIds |-> NoEntry],
               now |-> 0,
               call |-> "",
               offer_id |-> "",
               result |-> NoOffer,
               removed |-> FALSE,
               last_call |-> [id \in OfferIds |-> NoStore],
               last_stored |-> [id \in OfferIds |-> NoStore]]

\* store_offer(offer_id, raw_data) is called.  last_call keeps the arguments of
\* the latest call for each id, last_stored those of the latest call with a
\* flight offer
StoreOffer ==
    /\ calc.fn = "offer_cache"
    /\ \E offer_id \in OfferIds, raw_data \in RawOffers :
          calc' = [calc EXCEPT
                      !._offer_cache = store_offer(@, offer_id, raw_data, calc.now),
                      !.call = "store_offer",
                      !.offer_id = offer_id,
                      !.result = NoOffer,
                      !.removed = FALSE,
                      !.last_call[offer_id] =
                          [called |-> TRUE, raw |-> raw_data, at |-> calc.now],
                      !.last_stored[offer_id] =
                          IF raw_data.kind = "dict" /\ raw_data.type = "flight-offer"
                          THEN [called |-> TRUE, raw |-> raw_data, at |-> calc.now]
                          ELSE @]
    /\ UNCHANGED <<state, pc, steps, err, store, conv, turn, last, ran, reply,
                   seen, other>>

\* get_offer(offer_id) is called
GetOffer ==
    /\ calc.fn = "offer_cache"
    /\ \E offer_id \in OfferIds :
          LET got == get_offer(calc._offer_cache, offer_id, calc.now)
          IN calc' = [calc EXCEPT
                         !._offer_cache = got.cache,
                         !.call = "get_offer",
                         !.offer_id = offer_id,
                         !.result = got.result,
                         !.removed = calc._offer_cache[offer_id].present
                                     /\ ~got.cache[offer_id].present]
    /\ UNCHANGED <<state, pc, steps, err, store, conv, turn, last, ran, reply,
                   seen, other>>

\* cache_offers(flights) is called
CacheOffers ==
    /\ calc.fn = "offer_cache"
    /\ \E flights \in FlightLists :
          calc' = [calc EXCEPT
                      !._offer_cache = cache_offers(@, flights, calc.now),
                      !.call = "cache_offers",
                      !.offer_id = "",
                      !.result = NoOffer,
                      !.removed = FALSE,
                      !.last_call = CallsOf(@, StoredFlights(flights), calc.now),
                      !.last_stored = CallsOf(@, StoredFlights(flights), calc.now)]
    /\ UNCHANGED <<state, pc, steps, err, store, conv, turn, last, ran, reply,
                   seen, other>>

\* datetime.utcnow() moves on
Tick ==
    /\ calc.fn = "offer_cache"
    /\ calc.now < MaxNow
    /\ calc' = [calc EXCEPT !.now = @ + TickMinutes, !.call = "", !.offer_id = "",
                            !.result = NoOffer, !.removed = FALSE]
    /\ UNCHANGED <<state, pc, steps, err, store, conv, turn, last, ran, reply,
                   seen, other>>

NextOffers ==
    \/ StoreOffer
    \/ GetOffer
    \/ CacheOffers
    \/ Tick

SpecOffers == InitOffers /\ [][NextOffers]_vars

\* C34: offer cache round trip: get_offer(id) after store_offer(id, raw), less
\* than 20 minutes later and with no other store_offer for that id in between,
\* returns raw, whatever the id and the dict raw
C34_StoreThenGet ==
    (/\ calc.fn = "offer_cache"
     /\ calc.call = "get_offer"
     /\ calc.last_call[calc.offer_id].called
     /\ calc.last_call[calc.offer_id].raw.kind = "dict"
     /\ calc.now - calc.last_call[calc.offer_id].at < OfferMinutes) =>
        calc.result = calc.last_call[calc.offer_id].raw

\* A step in which get_offer(offer_id) returns
GetOfferReturns == calc.fn = "offer_cache" /\ calc'.call = "get_offer"

\* get_offer returns None for an id no flight offer was stored under and for
\* an id whose entry's expiry time is in the past, and that call removes the
\* expired entry
NoneForUnknownOrExpired ==
    LET offer_id == calc'.offer_id
        entry == calc._offer_cache[offer_id]
    IN /\ ~calc.last_stored[offer_id].called =>
              /\ calc'.result = NoOffer
              /\ calc'._offer_cache = calc._offer_cache
       /\ (entry.present /\ calc.now > entry.expires_at) =>
              /\ calc'.result = NoOffer
              /\ ~calc'._offer_cache[offer_id].present

\* C35: get_offer never returns an expired or unknown offer: None for an id
\* never stored and for an entry whose expiry time is in the past, which that
\* call removes; every offer returned is one stored under that id less than
\* 20 minutes earlier
C35_NoExpiredOffer ==
    [][GetOfferReturns =>
          /\ NoneForUnknownOrExpired
          /\ calc'.result # NoOffer =>
                 /\ calc.last_stored[calc'.offer_id].called
                 /\ calc'.result = calc.last_stored[calc'.offer_id].raw
                 /\ calc.now - calc.last_stored[calc'.offer_id].at < OfferMinutes]_vars

\* C35 as the code has it: every offer returned is one stored under that id
\* not more than 20 minutes earlier; an offer is still returned when exactly 20
\* minutes have passed
C35_NoOfferPastExpiry ==
    [][GetOfferReturns =>
          /\ NoneForUnknownOrExpired
          /\ calc'.result # NoOffer =>
                 /\ calc.last_stored[calc'.offer_id].called
                 /\ calc'.result = calc.last_stored[calc'.offer_id].raw
                 /\ calc.now - calc.last_stored[calc'.offer_id].at <= OfferMinutes]_vars

\* get_offer found an entry stored more than 20 minutes ago, removed it and
\* returned None
C35_Witness ==
    /\ calc.fn = "offer_cache"
    /\ calc.call = "get_offer"
    /\ calc.removed
    /\ calc.result = NoOffer
    /\ calc.last_stored[calc.offer_id].called
    /\ calc.now - calc.last_stored[calc.offer_id].at > OfferMinutes

----------------------------------------------------------------------------
(* api/v1/booking_routes.py: the in-memory booking store and its routes *)

MaxModifications == 2

BookingType == {"flight", "hotel", "package"}
BookingStatus == {"pending", "confirmed", "cancelled", "failed"}

\* The ids generate_booking_id gives out
BookingIds == {"BK0000000A", "BK0000000B"}

\* A key that is not in _bookings_db
NoBooking ==
    [present |-> FALSE, booking_type |-> "", status |-> "", check_in |-> None,
     check_out |-> None, cancellation_reason |-> None, refund_status |-> None,
     modification_history |-> 0]

\* booking_data of the three create routes.  check_in and check_out stand for
\* details.hotel.check_in / details.flight.departure_date and
\* details.hotel.check_out / details.flight.return_date, which only a package
\* has; modification_history is the length of that list
booking_data(booking_type) ==
    [present |-> TRUE, booking_type |-> booking_type, status |-> "confirmed",
     check_in |-> IF booking_type = "package" THEN "2026-07-01" ELSE None,
     check_out |-> IF booking_type = "package" THEN "2026-07-08" ELSE None,
     cancellation_reason |-> None, refund_status |-> None,
     modification_history |-> 0]

\* "_bookings_db[booking_id] = booking_data" of create_flight_booking,
\* create_hotel_booking and create_package_booking
create_booking(_bookings_db, booking_id, booking_type) ==
    [db |-> [_bookings_db EXCEPT ![booking_id] = booking_data(booking_type)],
     status_code |-> 200]

\* cancel_booking: the store it leaves and the HTTP status of its answer
cancel_booking(_bookings_db, booking_id, reason) ==
    LET booking == _bookings_db[booking_id]
    IN IF ~booking.present THEN [db |-> _bookings_db, status_code |-> 404]
       ELSE IF booking.status = "cancelled"
       THEN [db |-> _bookings_db, status_code |-> 400]
       ELSE [db |-> [_bookings_db EXCEPT ![booking_id] =
                        [booking EXCEPT !.status = "cancelled",
                                        !.cancellation_reason = reason,
                                        !.refund_status = "processing"]],
             status_code |-> 200]

\* What modify_booking does to a booking it accepts
modified(booking, modification) ==
    [booking EXCEPT
        !.check_in = IF modification.check_in # None /\ booking.booking_type = "package"
                     THEN modification.check_in ELSE @,
        !.check_out = IF modification.check_out # None /\ booking.booking_type = "package"
                      THEN modification.check_out ELSE @,
        !.modification_history = @ + 1]

\* Mutant of modify_booking: the status of the booking is not looked at
modify_booking_any_status(_bookings_db, booking_id, modification) ==
    LET booking == _bookings_db[booking_id]
    IN IF ~booking.present THEN [db |-> _bookings_db, status_code |-> 404]
       ELSE [db |-> [_bookings_db EXCEPT ![booking_id] = modified(booking, modification)],
             status_code |-> 200]

\* modify_booking: the store it leaves and the HTTP status of its answer
modify_booking(_bookings_db, booking_id, modification) ==
    LET booking == _bookings_db[booking_id]
    IN IF ~booking.present THEN [db |-> _bookings_db, status_code |-> 404]
       ELSE IF booking.status # "confirmed"
       THEN [db |-> _bookings_db, status_code |-> 400]
       ELSE [db |-> [_bookings_db EXCEPT ![booking_id] = modified(booking, modification)],
             status_code |-> 200]

\* The JSON body of a modify request: None for a key it does not have
Modifications ==
    [check_in : {None, "2026-08-01"}, check_out : {None, "2026-08-08"}]

CancelReasons == {None, "change of plans"}

InitBookings ==
    /\ Init!1 /\ Init!2 /\ Init!3 /\ Init!4 /\ Init!5 /\ Init!6 /\ Init!7
    /\ Init!8 /\ Init!9 /\ Init!10 /\ Init!11 /\ Init!12
    /\ calc = [fn |-> "booking_routes",
               _bookings_db |-> [id \in BookingIds |-> NoBooking],
               route |-> "", booking_id |-> "", status_code |-> 0]

\* POST /bookings/flight, /hotel or /package.  generate_booking_id() is taken to
\* give an id that is not in use: 8 hexadecimal digits of a uuid4
CreateBooking ==
    /\ calc.fn = "booking_routes"
    /\ \E booking_type \in BookingType :
       \E booking_id \in {id \in BookingIds : ~calc._bookings_db[id].present} :
          LET done == create_booking(calc._bookings_db, booking_id, booking_type)
          IN calc' = [calc EXCEPT !._bookings_db = done.db, !.route = "create",
                                  !.booking_id = booking_id,
                                  !.status_code = done.status_code]
    /\ UNCHANGED <<state, pc, steps, err, store, conv, turn, last, ran, reply,
                   seen, other>>

\* POST /bookings/{booking_id}/cancel
CancelBooking ==
    /\ calc.fn = "booking_routes"
    /\ \E booking_id \in BookingIds, reason \in CancelReasons :
          LET done == cancel_booking(calc._bookings_db, booking_id, reason)
          IN calc' = [calc EXCEPT !._bookings_db = done.db, !.route = "cancel",
                                  !.booking_id = booking_id,
                                  !.status_code = done.status_code]
    /\ UNCHANGED <<state, pc, steps, err, store, conv, turn, last, ran, reply,
                   seen, other>>

\* POST /bookings/{booking_id}/modify
ModifyBooking ==
    /\ calc.fn = "booking_routes"
    /\ \E booking_id \in BookingIds, modification \in Modifications :
          /\ \/ calc._bookings_db[booking_id].status # "confirmed"
             \/ calc._bookings_db[booking_id].modification_history < MaxModifications
          /\ LET done == modify_booking(calc._bookings_db, booking_id, modification)
             IN calc' = [calc EXCEPT !._bookings_db = done.db, !.route = "modify",
                                     !.booking_id = booking_id,
                                     !.status_code = done.status_code]
    /\ UNCHANGED <<state, pc, steps, err, store, conv, turn, last, ran, reply,
                   seen, other>>

NextBookings ==
    \/ CreateBooking
    \/ CancelBooking
    \/ ModifyBooking

SpecBookings == InitBookings /\ [][NextBookings]_vars

\* C36: the status of a stored booking only moves from confirmed to cancelled.
\* A cancel of a cancelled booking and a modify of a booking that is not
\* confirmed are answered 400, a request for an unknown id 404, and a rejected
\* request leaves the store as it was; a cancelled booking's record never
\* changes again
C36_ConfirmedToCancelledOnly ==
    [][calc.fn = "booking_routes" =>
          LET before == calc._bookings_db
              after == calc'._bookings_db
              asked == before[calc'.booking_id]
          IN /\ \A id \in BookingIds :
                    /\ before[id].present => after[id].present
                    /\ (before[id].present /\ after[id].status # before[id].status) =>
                           (before[id].status = "confirmed"
                            /\ after[id].status = "cancelled")
                    /\ (before[id].present /\ before[id].status = "cancelled") =>
                           after[id] = before[id]
             /\ calc'.status_code \in {400, 404} => after = before
             /\ calc'.route \in {"cancel", "modify"} =>
                    /\ ~asked.present => calc'.status_code = 404
                    /\ (asked.present /\ asked.status = "cancelled") =>
                           calc'.status_code = 400
                    /\ (asked.present /\ asked.status = "confirmed") =>
                           calc'.status_code = 200]_vars

\* A modify of a cancelled package, modified once before it was cancelled, was
\* answered 400
C36_Witness ==
    /\ calc.fn = "booking_routes"
    /\ calc.route = "modify"
    /\ calc.status_code = 400
    /\ calc._bookings_db[calc.booking_id].status = "cancelled"
    /\ calc._bookings_db[calc.booking_id].booking_type = "package"
    /\ calc._bookings_db[calc.booking_id].modification_history = 1

----------------------------------------------------------------------------
(* The reply of a turn *)

\* The text chat() returns is of the running turn: the newest assistant message
\* with content stands after the user's message of the turn, which chat() put
\* at the end of the history; or there is no such assistant message and chat()
\* returns its fixed fallback text
ReplyOfThisTurn(messages) ==
    AIContentIdx(messages) # {} =>
        /\ HumanIdx(messages) # {}
        /\ MaxOf(AIContentIdx(messages)) > MaxOf(HumanIdx(messages))

\* C37: every turn produces a fresh reply: when the loop of a turn has ended a
\* handler has run in it, and the assistant text chat() returns was written in
\* that turn, not in an earlier one
C37_FreshReply ==
    pc = "end" =>
        /\ steps > 1
        /\ ReplyOfThisTurn(state.messages)

----------------------------------------------------------------------------
(* The Sharpener's phase over the turns of a conversation *)

\* C38: the Sharpener's phase, derived from the travel context, never decreases
\* from one turn to the next: at the end of a turn it is not lower than for the
\* travel context the turn before left in the conversation, whatever the model
\* extracted
C38_PhaseNeverDecreases ==
    (pc = "end" /\ conv.exists) =>
        get_current_phase(state.travel_context) >= get_current_phase(conv.travel_context)

----------------------------------------------------------------------------
(* Booking completion in the ledger *)

----------------------------------------------------------------------------
(* Search after a tool-calling Search round *)

\* A conversation in which a Search invocation has requested a tool call: the
\* turn has ended and its snapshot holds search_initiated in the ledger
InitSearched ==
    /\ InitAny
    /\ Contains(store.completed_tasks, "search_initiated")

SpecSearched == InitSearched /\ [][NextAny]_vars

\* C40: in a conversation whose ledger holds search_initiated (a Search
\* invocation has requested a tool call), no later Action invocation runs the
\* Search phase with a model reply that requests a tool call: there is no
\* second tool-calling Search round.
C40_NoSecondSearchRound ==
    ~(last.node = "action" /\ last.phase = SEARCH /\ last.llm = "tool")

====
